---- MODULE Spec2Model ----
(***************************************************************************)
(* Verification model of the Chatwoot analytics pipeline of                *)
(* app/modules/analytics/conversations.py: the paginated fetchers with     *)
(* their 429 backoff, the conversation filter, the message classifier and  *)
(* the message aggregation of the analysis tab and of the insights context *)
(* builder.                                                                *)
(*                                                                         *)
(* Conventions.  Instants are integers (order is all the code uses after   *)
(* astimezone(TZ)).  Delays are in tenths of a second.  Python None is the *)
(* string PyNone.  A JSON timestamp is a record [k, v]: its kind and, for  *)
(* the kinds that parse, the instant it denotes.                           *)
(***************************************************************************)
EXTENDS Integers, Sequences, FiniteSets, TLC

VARIABLES
    \* ---- paginated fetch (_fetch_conversations / _fetch_messages) ----
    fpc,          \* "idle" | "rl" (inside _request_with_rate_limit) | "handle" | "done"
    fkind,        \* "conversations" | "messages"
    fstart,       \* start_dt of the call
    page,         \* _fetch_conversations: page
    batches,      \* _fetch_messages: batches
    before_id,    \* _fetch_messages: before_id (0 is None)
    nitems,       \* len(conversations) / len(messages) accumulated so far
    attempt,      \* _request_with_rate_limit: attempt
    rtry,         \* _request_with_retry: attempt
    resp,         \* _request_with_rate_limit: last_resp, and the value it returns
    last_delay,   \* the last delay handed to time.sleep in this call (NoTs: none)
    outcome,      \* "none" | "returned" | "RuntimeError"
    \* ---- aggregation (render_conversations_analysis_tab / _build_insights_context) ----
    mode,               \* "analysis" | "insights": which of the two runs
    filters,            \* the filters dict of _render_conversation_filters
    session_statuses,   \* st.session_state[<prefix>_message_statuses]
    conversations,      \* the list _fetch_conversations returned
    remote,             \* conversation id -> what _fetch_messages gives for it
    apc,                \* "idle" | "wait" (in as_completed) | "msgs" (in `for msg in msgs`) | "done"
    rows,               \* rows of the strict pass, by conversation_id
    conv_api_ids,       \* ids of the strict pass
    message_scope_rows, \* rows of the relaxed pass, by conversation_id
    message_conv_ids,   \* ids of the relaxed pass
    batch_no,           \* the batch of _chunk_list being waited for (0: none yet)
    pending,            \* positions of message_conv_ids whose future is not yet yielded
    completed,          \* positions whose fetch has returned or raised, not yet yielded
    cur,                \* locals of one pass of the as_completed loop
    tot,                \* the accumulators shared by all passes
    stats,              \* conv_analysis_stats / the stats returned
    messages,           \* conv_analysis_messages / the sorted message_rows
    warnings,           \* number of st.warning calls
    \* -- the message sample at the end of _build_insights_context
    spc,                \* "idle" | "loop" (in `for row in message_rows`) | "done"
    sample_rows,        \* message_rows, sorted
    max_messages,       \* parameter
    max_chars,          \* parameter
    count,              \* message lines written
    total_chars,        \* characters of the message lines written
    lines,              \* the lines appended after "Mensagens (amostra):"
    \* -- the bot service (bot_start.py)
    config,                 \* what load_settings() returns
    mensagens_processadas,  \* ids of the messages already handled
    historico_conversas,    \* conversation_id -> list of messages
    tasks,                  \* background tasks added and not yet run
    posted,                 \* messages posted to the helpdesk, in order
    logged,                 \* rows inserted into conversation_logs, in order
    llm_calls,              \* inputs of client.responses.create, in order
    request,                \* the last webhook request: payload, clock, what was done
    deliveries,             \* webhook requests answered, in order: id, stage, body, replied
    task_done,              \* the last responder_cliente run: its task, what the outside
                            \* answered, and the rows, calls and posts it added
    conv_results,           \* st.session_state["conv_results"], <<>> while absent
    error,                  \* what st.error showed in the last run of the page, "" if nothing
    click,                  \* the last run of the page, if "Gerar" was clicked in it: the
                            \* tab, the period, whether _fetch_conversations raised
    insight_prompts,        \* the rows of table insight_prompts: id, name, description,
                            \* prompt_text
    prompt_seq,             \* the AUTOINCREMENT sequence of the table: the last id given
    insight_prompt_selected_id, \* st.session_state["insight_prompt_selected_id"], 0 for None
    prompt_op,              \* the last run of the prompts tab: its number in the session,
                            \* the button pressed, what was selected and what was entered
    settings,               \* the row id = 1 of table settings, column by column
    BOOTSTRAPPED,           \* sidebar._BOOTSTRAPPED of the dashboard process
    procps,                 \* whether pkill and pgrep are installed on the host
    webhook,                \* whether the uvicorn process of the webhook is running
    settings_op,            \* the last run of a page: its number in the process, what it
                            \* did, and the flag it gave set_bot_enabled
    conv_insights_widgets,  \* st.session_state of the filter widgets of the insights tab
    conv_insights,          \* st.session_state["conv_insights_<key>"] for the keys
                            \* last_signature, summary, context, prompt_id, output, pending
    insights_calls,         \* what _run_insights_prompt was called with, in order
    insights_op             \* the last run of the insights tab: its number in the session,
                            \* the button pressed, the context "Gerar insights" last stored

fetchVars == <<fpc, fkind, fstart, page, batches, before_id, nitems, attempt,
               rtry, resp, last_delay, outcome>>

aggVars == <<mode, filters, session_statuses, conversations, remote, apc, rows,
             conv_api_ids, message_scope_rows, message_conv_ids, batch_no, pending,
             completed, cur, tot, stats, messages, warnings>>

\* The message sample of _build_insights_context
sampleVars == <<spc, sample_rows, max_messages, max_chars, count, total_chars, lines>>

\* The bot service
botVars == <<config, mensagens_processadas, historico_conversas, tasks, posted, logged,
             llm_calls, request, deliveries, task_done>>

\* The page around the aggregation: the conversations tab and the errors
tabVars == <<conv_results, error, click>>

\* The insight-prompts management tab
promptVars == <<insight_prompts, prompt_seq, insight_prompt_selected_id, prompt_op>>

\* The settings row, the sidebar and the activation buttons of Bot Studio
settingsVars == <<settings, BOOTSTRAPPED, procps, webhook, settings_op>>

\* The insights tab after its filters
insightsVars == <<conv_insights_widgets, conv_insights, insights_calls, insights_op>>

\* The management pages and the insights tab
adminVars == <<promptVars, settingsVars, insightsVars>>

\* The analyses and the bot service
pageVars == <<fetchVars, aggVars, sampleVars, botVars, tabVars>>

\* What the prompts tab leaves alone
baseVars == <<pageVars, settingsVars, insightsVars>>

extVars == <<sampleVars, botVars, tabVars, adminVars>>

vars == <<fetchVars, aggVars, extVars>>

PyNone == "<None>"

(***************************************************************************)
(* Timestamps: _parse_ts                                                   *)
(***************************************************************************)
NoTs == -1

TsNone == [k |-> "none", v |-> 0]
TsBad == [k |-> "badstr", v |-> 0]
TsInt(n) == [k |-> "int", v |-> n]
TsIso(n) == [k |-> "iso", v |-> n]
TsNumStr(n) == [k |-> "numstr", v |-> n]

\* Python truthiness of a raw timestamp value (for the `a or b` chains).
Truthy(raw) == ~(raw.k = "none" \/ (raw.k = "int" /\ raw.v = 0))

\* a or b
PyOr(a, b) == IF Truthy(a) THEN a ELSE b

ParseTs(raw) ==
    CASE raw.k = "none" -> NoTs
      [] raw.k = "int" -> raw.v
      [] raw.k = "iso" -> raw.v
      [] raw.k = "numstr" -> raw.v
      [] OTHER -> NoTs

(***************************************************************************)
(* Strings the code inspects are sequences of one-character strings.       *)
(***************************************************************************)
Upper == <<"A","B","C","D","E","F","G","H","I","J","K","L","M",
           "N","O","P","Q","R","S","T","U","V","W","X","Y","Z">>
LowerLetters == <<"a","b","c","d","e","f","g","h","i","j","k","l","m",
                  "n","o","p","q","r","s","t","u","v","w","x","y","z">>
Digits == <<"0","1","2","3","4","5","6","7","8","9">>

\* str.lower() of one character
LowerChar(c) ==
    IF \E i \in 1 .. 26 : Upper[i] = c
    THEN LowerLetters[CHOOSE i \in 1 .. 26 : Upper[i] = c]
    ELSE c

\* s.lower()
LowerStr(s) == [i \in 1 .. Len(s) |-> LowerChar(s[i])]

RECURSIVE LStrip(_)
LStrip(s) == IF s # <<>> /\ Head(s) = " " THEN LStrip(Tail(s)) ELSE s

RECURSIVE RStrip(_)
RStrip(s) == IF s # <<>> /\ s[Len(s)] = " " THEN RStrip(SubSeq(s, 1, Len(s) - 1)) ELSE s

\* s.strip()
Strip(s) == RStrip(LStrip(s))

IsDigitChar(c) == \E i \in 1 .. 10 : Digits[i] = c
DigitValue(c) == (CHOOSE i \in 1 .. 10 : Digits[i] = c) - 1

\* s.isdigit()
IsDigitStr(s) == s # <<>> /\ \A i \in 1 .. Len(s) : IsDigitChar(s[i])

RECURSIVE IntOfStr(_)
\* int(s) for a string of digits
IntOfStr(s) ==
    IF s = <<>> THEN 0
    ELSE 10 * IntOfStr(SubSeq(s, 1, Len(s) - 1)) + DigitValue(s[Len(s)])

RECURSIVE StrOfNat(_)
\* str(n) for n >= 0
StrOfNat(n) == IF n < 10 THEN <<Digits[n + 1]>> ELSE StrOfNat(n \div 10) \o <<Digits[(n % 10) + 1]>>

CharRank(c) ==
    IF c = " " THEN 0
    ELSE IF c = "*" THEN 1
    ELSE IF IsDigitChar(c) THEN 2 + DigitValue(c)
    ELSE IF \E i \in 1 .. 26 : Upper[i] = c THEN 20 + (CHOOSE i \in 1 .. 26 : Upper[i] = c)
    ELSE IF \E i \in 1 .. 26 : LowerLetters[i] = c THEN 60 + (CHOOSE i \in 1 .. 26 : LowerLetters[i] = c)
    ELSE 99

RECURSIVE StrLess(_, _)
\* a < b for Python strings (code point order)
StrLess(a, b) ==
    IF b = <<>> THEN FALSE
    ELSE IF a = <<>> THEN TRUE
    ELSE IF Head(a) # Head(b) THEN CharRank(Head(a)) < CharRank(Head(b))
    ELSE StrLess(Tail(a), Tail(b))

\* pat in text
Contains(text, pat) ==
    \E i \in 1 .. (Len(text) - Len(pat) + 1) : SubSeq(text, i, i + Len(pat) - 1) = pat

RECURSIVE SplitStar(_)
\* pattern.split("*")
SplitStar(pat) ==
    IF \A i \in 1 .. Len(pat) : pat[i] # "*" THEN <<pat>>
    ELSE LET k == CHOOSE i \in 1 .. Len(pat) :
                      pat[i] = "*" /\ \A j \in 1 .. (i - 1) : pat[j] # "*"
         IN  <<SubSeq(pat, 1, k - 1)>> \o SplitStar(SubSeq(pat, k + 1, Len(pat)))

RECURSIVE SearchSegments(_, _, _)
\* re.search of seg1.*seg2.* ... in text, from position `from` on
SearchSegments(text, segs, from) ==
    IF segs = <<>> THEN TRUE
    ELSE LET seg == Head(segs) IN
         \E i \in from .. (Len(text) - Len(seg) + 1) :
            /\ SubSeq(text, i, i + Len(seg) - 1) = seg
            /\ SearchSegments(text, Tail(segs), i + Len(seg))

\* _match_partial(text, pattern)
MatchPartial(text, pattern) ==
    IF pattern = <<>> THEN TRUE
    ELSE LET pat == Strip(pattern) IN
         IF pat = <<>> THEN TRUE
         ELSE IF \E i \in 1 .. Len(pat) : pat[i] = "*"
         THEN SearchSegments(LowerStr(text), SplitStar(LowerStr(pat)), 1)
         ELSE Contains(LowerStr(text), LowerStr(pat))

(***************************************************************************)
(* _request_with_retry and _request_with_rate_limit                        *)
(***************************************************************************)
retries == 2
rate_limit_retries == 3
base_delay_tenths == 15
jitter_max_tenths == 3

\* Retry-After header: absent, delta-seconds (v tenths), or an HTTP-date.
RaAbsent == [k |-> "absent", v |-> 0]
RaSeconds(t) == [k |-> "seconds", v |-> t]
RaDate == [k |-> "httpdate", v |-> 0]

BackoffDelayNoDoubling(att) == base_delay_tenths

\* delay = base_delay * (2**attempt)
BackoffDelay(att) == base_delay_tenths * (2 ^ att)

\* The delay computed for a 429 response, before jitter.
RateLimitDelay(r, att) ==
    IF r.retry_after.k = "seconds" THEN r.retry_after.v
    ELSE BackoffDelay(att)

\* random.uniform(0, 0.3), at the resolution of the model
Jitter == {0, jitter_max_tenths}

RateLimitLoopOffByOne(att) == att <= rate_limit_retries + 1

\* for attempt in range(rate_limit_retries + 1)
RateLimitLoopGuard(att) == att <= rate_limit_retries

(***************************************************************************)
(* Remote responses                                                        *)
(***************************************************************************)
\* A page of records is kept as its length and its first and last record.
ConvItem(la, up, cr) == [last_activity_at |-> la, updated_at |-> up, created_at |-> cr]
MsgItem(id, cr, ts) == [id |-> id, created_at |-> cr, timestamp |-> ts]

Page(n, first, last) == [n |-> n, first |-> first, last |-> last]

FreshConv == ConvItem(TsInt(3), TsNone, TsInt(1))
EmptyPage == Page(0, FreshConv, FreshConv)

\* Last records: stale by last_activity_at, stale by updated_at (last_activity_at
\* is 0, falsy), and one whose first truthy timestamp does not parse.
ConvPages ==
    LET StaleConv == ConvItem(TsIso(1), TsInt(3), TsInt(3))
        StaleByUpdated == ConvItem(TsInt(0), TsNumStr(1), TsInt(3))
        NoTsConv == ConvItem(TsBad, TsInt(1), TsInt(1))
    IN  { EmptyPage,
          Page(2, FreshConv, FreshConv),
          Page(2, StaleConv, FreshConv),
          Page(2, FreshConv, StaleConv),
          Page(2, FreshConv, StaleByUpdated),
          Page(2, FreshConv, NoTsConv) }

EmptyMsgPage == Page(0, MsgItem(0, TsNone, TsNone), MsgItem(0, TsNone, TsNone))

MsgPages ==
    { EmptyMsgPage }
    \cup { Page(n, MsgItem(id, cr, TsNone), MsgItem(9, TsInt(3), TsNone)) :
             n \in {1, 20}, id \in {0, 5, 6}, cr \in {TsInt(3), TsInt(1), TsBad} }

Response(st, ra, pl) == [status |-> st, retry_after |-> ra, payload |-> pl]

NoResponse == Response(0, RaAbsent, EmptyPage)

Responses(kind) ==
    LET empty == IF kind = "conversations" THEN EmptyPage ELSE EmptyMsgPage
        pages == IF kind = "conversations" THEN ConvPages ELSE MsgPages
    IN  { Response(200, RaAbsent, p) : p \in pages }
        \cup { Response(429, ra, empty) : ra \in {RaAbsent, RaSeconds(20), RaDate} }
        \cup { Response(500, RaAbsent, empty) }

(***************************************************************************)
(* _fetch_conversations and _fetch_messages                                *)
(***************************************************************************)
\* The parameters max_pages (default 30) and max_batches (default 200) of the
\* fetchers, at the size explored here.
max_pages == 3
max_batches == 3
\* if len(payload) < 20: break
short_batch == 20

\* last = payload[-1]; last_dt = _parse_ts(last_activity_at or updated_at or created_at)
\* if last_dt and last_dt.astimezone(TZ) < start_dt: break
StalePage(payload, sd) ==
    LET last == payload.last
        dt == ParseTs(PyOr(PyOr(last.last_activity_at, last.updated_at), last.created_at))
    IN  dt # NoTs /\ dt < sd

\* oldest_dt = _parse_ts(oldest.get("created_at") or oldest.get("timestamp"))
StaleBatch(payload, sd) ==
    LET oldest == payload.first
        dt == ParseTs(PyOr(oldest.created_at, oldest.timestamp))
    IN  dt # NoTs /\ dt < sd

PageLoopOffByOne(p) == p <= max_pages + 1

\* while page <= max_pages
PageLoopGuard(p) == p <= max_pages

\* while batches < max_batches
BatchLoopGuard(b) == b < max_batches

\* if resp.status_code >= 400: raise RuntimeError(...)
IsErrorStatus(st) == st >= 400

FetchIdle ==
    /\ fpc = "idle" /\ fkind = "conversations" /\ fstart = 0 /\ page = 0
    /\ batches = 0 /\ before_id = 0 /\ nitems = 0 /\ attempt = 0 /\ rtry = 0
    /\ resp = NoResponse /\ last_delay = NoTs /\ outcome = "none"

\* Entering _request_with_rate_limit for the next page or batch.
EnterRateLimit ==
    /\ fpc' = "rl" /\ attempt' = 0 /\ rtry' = 0 /\ resp' = NoResponse
    /\ last_delay' = NoTs /\ outcome' = "none"

\* The fetcher returns its list or raises RuntimeError.
FinishFetch(how) ==
    /\ fpc' = "done" /\ outcome' = how
    /\ UNCHANGED <<attempt, rtry, resp, last_delay>>

\* A call of _fetch_conversations or _fetch_messages.
FetchCall(kind, sd) ==
    /\ fpc = "idle"
    /\ UNCHANGED <<aggVars, extVars>>
    /\ fkind' = kind /\ fstart' = sd
    /\ page' = 1 /\ batches' = 0 /\ before_id' = 0 /\ nitems' = 0
    /\ IF (kind = "conversations" /\ PageLoopGuard(1)) \/ (kind = "messages" /\ BatchLoopGuard(0))
       THEN EnterRateLimit
       ELSE FinishFetch("returned")

\* One pass of the loop of _request_with_rate_limit in which requests.get answers
\* with r: returned at once unless it is a 429, else slept on before the next pass.
RlRespond(r, jit) ==
    /\ fpc = "rl" /\ RateLimitLoopGuard(attempt)
    /\ UNCHANGED <<aggVars, extVars>>
    /\ resp' = r
    /\ UNCHANGED <<fkind, fstart, page, batches, before_id, nitems, outcome>>
    /\ IF r.status # 429
       THEN /\ fpc' = "handle"
            /\ UNCHANGED <<attempt, rtry, last_delay>>
       ELSE /\ last_delay' = RateLimitDelay(r, attempt) + jit
            /\ attempt' = attempt + 1
            /\ rtry' = 0
            /\ fpc' = "rl"

\* The loop of _request_with_rate_limit is exhausted: return last_resp.
RlReturnLast ==
    /\ fpc = "rl" /\ ~RateLimitLoopGuard(attempt)
    /\ UNCHANGED <<aggVars, extVars>>
    /\ fpc' = "handle"
    /\ UNCHANGED <<fkind, fstart, page, batches, before_id, nitems, outcome,
                   attempt, rtry, resp, last_delay>>

\* requests.get raises (ReadTimeout or another RequestException) inside
\* _request_with_retry: retried `retries` times, then raised to the fetcher,
\* which wraps it in RuntimeError.
RlTransportError ==
    /\ fpc = "rl" /\ RateLimitLoopGuard(attempt)
    /\ UNCHANGED <<aggVars, extVars>>
    /\ UNCHANGED <<fkind, fstart, page, batches, before_id, nitems, resp,
                   attempt, last_delay>>
    /\ IF rtry < retries
       THEN rtry' = rtry + 1 /\ fpc' = "rl" /\ outcome' = outcome
       ELSE rtry' = rtry /\ fpc' = "done" /\ outcome' = "RuntimeError"

\* The body of the while loop of _fetch_conversations after the request.
HandleConversationsPage ==
    /\ fpc = "handle" /\ fkind = "conversations"
    /\ UNCHANGED <<aggVars, extVars>>
    /\ UNCHANGED <<fkind, fstart, batches, before_id>>
    /\ IF IsErrorStatus(resp.status)
       THEN FinishFetch("RuntimeError") /\ UNCHANGED <<page, nitems>>
       ELSE IF resp.payload.n = 0
       THEN FinishFetch("returned") /\ UNCHANGED <<page, nitems>>
       ELSE /\ nitems' = nitems + resp.payload.n
            /\ IF StalePage(resp.payload, fstart)
               THEN FinishFetch("returned") /\ page' = page
               ELSE /\ page' = page + 1
                    /\ IF PageLoopGuard(page + 1)
                       THEN EnterRateLimit
                       ELSE FinishFetch("returned")

\* The body of the while loop of _fetch_messages after the request.
HandleMessagesBatch ==
    /\ fpc = "handle" /\ fkind = "messages"
    /\ UNCHANGED <<aggVars, extVars>>
    /\ UNCHANGED <<fkind, fstart, page>>
    /\ IF IsErrorStatus(resp.status)
       THEN FinishFetch("RuntimeError") /\ UNCHANGED <<batches, before_id, nitems>>
       ELSE IF resp.payload.n = 0
       THEN FinishFetch("returned") /\ UNCHANGED <<batches, before_id, nitems>>
       ELSE /\ nitems' = nitems + resp.payload.n
            /\ LET next_before == resp.payload.first.id IN
               IF next_before = 0 \/ next_before = before_id
               THEN FinishFetch("returned") /\ UNCHANGED <<batches, before_id>>
               ELSE /\ before_id' = next_before
                    /\ IF StaleBatch(resp.payload, fstart) \/ resp.payload.n < short_batch
                       THEN FinishFetch("returned") /\ batches' = batches
                       ELSE /\ batches' = batches + 1
                            /\ IF BatchLoopGuard(batches + 1)
                               THEN EnterRateLimit
                               ELSE FinishFetch("returned")

\* The caller has its result (or its exception); the next call may start.
FetchReturn ==
    /\ fpc = "done"
    /\ UNCHANGED <<aggVars, extVars>>
    /\ fpc' = "idle" /\ fkind' = "conversations" /\ fstart' = 0 /\ page' = 0
    /\ batches' = 0 /\ before_id' = 0 /\ nitems' = 0 /\ attempt' = 0 /\ rtry' = 0
    /\ resp' = NoResponse /\ last_delay' = NoTs /\ outcome' = "none"

(***************************************************************************)
(* Conversations and the filter configuration                              *)
(*                                                                         *)
(* A conversation: id and display_id (IdNone: absent; the remote's ids are *)
(* positive), inbox_id, the contact (meta.sender or contact) with name,    *)
(* identifier, phone_number, phone (<<>>: absent), assignee_id (IdNone: no *)
(* assignee), status, team_id, created_at.                                 *)
(***************************************************************************)
IdNone == 0

\* A date d is the instants 2d (time.min) and 2d + 1 (time.max).
\* start_dt = datetime.combine(filters["start_date"], time.min, tzinfo=TZ)
StartOfDay(d) == 2 * d
\* end_dt = datetime.combine(filters["end_date"], time.max, tzinfo=TZ)
EndOfDay(d) == 2 * d + 1

\* a or b, for strings
StrOr(a, b) == IF a # <<>> THEN a ELSE b

\* conv_id = api_id or conv.get("display_id")
ConvId(conv) == IF conv.id # IdNone THEN conv.id ELSE conv.display_id

\* contact_name_val = sender.get("name") or sender.get("identifier") or ""
ContactName(conv) == StrOr(conv.name, conv.identifier)

\* contact_phone_val = phone_number or phone or identifier or ""
ContactPhone(conv) == StrOr(StrOr(conv.phone_number, conv.phone), conv.identifier)

\* if filters["conversation_id_filter"] and str(conv_id) != filter.strip(): continue
PassConversationId(conv, f) ==
    f.conversation_id_filter = <<>> \/ StrOfNat(ConvId(conv)) = Strip(f.conversation_id_filter)

PassInboxEmptyMatchesNothing(conv, f) == conv.inbox_id \in f.selected_inbox_ids

\* if filters["selected_inbox_ids"] and inbox_id not in selected_inbox_ids: continue
PassInbox(conv, f) == f.selected_inbox_ids = {} \/ conv.inbox_id \in f.selected_inbox_ids

\* the two _match_partial checks
PassContact(conv, f) ==
    /\ f.contact_name = <<>> \/ MatchPartial(ContactName(conv), f.contact_name)
    /\ f.contact_number = <<>> \/ MatchPartial(ContactPhone(conv), f.contact_number)

\* the selected agent and the "Conversa atribuída" select box
PassAssignee(conv, f) ==
    /\ f.selected_agent_id = IdNone \/ conv.assignee_id = f.selected_agent_id
    /\ ~(f.assigned_filter = "Sim" /\ conv.assignee_id = IdNone)
    /\ ~(f.assigned_filter = "Não" /\ conv.assignee_id # IdNone)

\* if filters["status_filter"] != "Todos" and str(status_val) != status_filter: continue
PassStatus(conv, f) == f.status_filter = "Todos" \/ conv.status = f.status_filter

\* if filters.get("selected_team_id") and str(team_id) != str(selected_team_id): continue
PassTeam(conv, f) == f.selected_team_id = IdNone \/ conv.team_id = f.selected_team_id

\* if enforce_created_range: created_at must parse and lie in [start_dt, end_dt]
PassCreatedRange(conv, f) ==
    LET created == ParseTs(conv.created_at) IN
    /\ created # NoTs
    /\ ~(created < StartOfDay(f.start_date) \/ created > EndOfDay(f.end_date))

RelaxedSkipsInbox(conv, f, enforce_created_range) ==
    /\ ConvId(conv) # IdNone
    /\ PassConversationId(conv, f)
    /\ enforce_created_range => PassInbox(conv, f)
    /\ PassContact(conv, f)
    /\ PassAssignee(conv, f)
    /\ PassStatus(conv, f)
    /\ PassTeam(conv, f)
    /\ enforce_created_range => PassCreatedRange(conv, f)

\* One pass of the loop of _collect_conversation_rows: is conv kept?
KeepsConversation(conv, f, enforce_created_range) ==
    /\ ConvId(conv) # IdNone
    /\ PassConversationId(conv, f)
    /\ PassInbox(conv, f)
    /\ PassContact(conv, f)
    /\ PassAssignee(conv, f)
    /\ PassStatus(conv, f)
    /\ PassTeam(conv, f)
    /\ enforce_created_range => PassCreatedRange(conv, f)

\* _collect_conversation_rows: rows (by their conversation_id) and conversation_api_ids
CollectConversationRows(convs, f, enforce_created_range) ==
    LET Kept(c) == KeepsConversation(c, f, enforce_created_range)
        HasApiId(c) == c.id # IdNone
        kept == SelectSeq(convs, Kept)
        with_id == SelectSeq(kept, HasApiId)
    IN  [rows |-> [i \in 1 .. Len(kept) |-> ConvId(kept[i])],
         ids |-> [i \in 1 .. Len(with_id) |-> with_id[i].id]]

\* _normalize_message_statuses: the value left in st.session_state[key]
NormalizeMessageStatuses(current, options) ==
    LET valid == current \cap options IN
    IF valid = {} THEN {"Todos"}
    ELSE IF "Todos" \in valid /\ Cardinality(valid) > 1 THEN valid \ {"Todos"}
    ELSE current

\* selected_message_statuses = filters.get("message_statuses") or ["Todos"]
\* if "Todos" in selected_message_statuses: selected_message_statuses = []
SelectedMessageStatuses(message_statuses) ==
    LET sel == IF message_statuses = {} THEN {"Todos"} ELSE message_statuses
    IN  IF "Todos" \in sel THEN {} ELSE sel

(***************************************************************************)
(* Messages and the message classifier                                     *)
(*                                                                         *)
(* A JSON value the code inspects (message_type, private) is a record      *)
(* [t, i, s]: its Python type, its integer value (bool: True is 1) and its *)
(* text (str: the string; float: its str()).                               *)
(***************************************************************************)
VNone == [t |-> "none", i |-> 0, s |-> <<>>]
VInt(n) == [t |-> "int", i |-> n, s |-> <<>>]
VBool(b) == [t |-> "bool", i |-> IF b THEN 1 ELSE 0, s |-> <<>>]
VStr(chars) == [t |-> "str", i |-> 0, s |-> chars]
VFloat(chars) == [t |-> "float", i |-> 0, s |-> chars]

S_incoming == <<"i","n","c","o","m","i","n","g">>
S_outgoing == <<"o","u","t","g","o","i","n","g">>
S_agentbot == <<"a","g","e","n","t","b","o","t">>
S_bot == <<"b","o","t">>
S_user == <<"u","s","e","r">>
S_agent == <<"a","g","e","n","t">>
S_true == <<"t","r","u","e">>

\* str(value), for the values that reach it
PyStr(v) == IF v.t = "none" THEN <<"N","o","n","e">> ELSE v.s

\* isinstance(value, int): bool is a subclass of int
IsInstanceInt(v) == v.t \in {"int", "bool"}

Sender(ty, id, name) == [type |-> ty, id |-> id, name |-> name]
NoSender == Sender(<<>>, 0, <<>>)

Msg(id, cr, st, mt, sty, snd, pv) ==
    [id |-> id, created_at |-> cr, timestamp |-> TsNone, status |-> st,
     message_type |-> mt, sender_type |-> sty, sender |-> snd, private |-> pv]

MessageDirectionCaseSensitive(msg) ==
    LET msg_type == msg.message_type IN
    IF msg_type.t = "int"
    THEN IF msg_type.i = 0 THEN "incoming" ELSE IF msg_type.i = 1 THEN "outgoing" ELSE PyNone
    ELSE IF msg_type.t # "str" THEN PyNone
    ELSE IF msg_type.s \in {<<"0">>, S_incoming} THEN "incoming"
    ELSE IF msg_type.s \in {<<"1">>, S_outgoing} THEN "outgoing"
    ELSE PyNone

\* _message_direction
MessageDirection(msg) ==
    LET msg_type == msg.message_type IN
    IF IsInstanceInt(msg_type)
    THEN IF msg_type.i = 0 THEN "incoming" ELSE IF msg_type.i = 1 THEN "outgoing" ELSE PyNone
    ELSE LET msg_type_str == LowerStr(PyStr(msg_type)) IN
         IF IsDigitStr(msg_type_str)
         THEN LET msg_type_int == IntOfStr(msg_type_str) IN
              IF msg_type_int = 0 THEN "incoming"
              ELSE IF msg_type_int = 1 THEN "outgoing" ELSE PyNone
         ELSE IF msg_type_str = S_incoming THEN "incoming"
         ELSE IF msg_type_str = S_outgoing THEN "outgoing"
         ELSE PyNone

\* _message_sender_type: msg["sender_type"], else sender["type"]; stripped, lowered
MessageSenderType(msg) ==
    LowerStr(Strip(StrOr(msg.sender_type, msg.sender.type)))

\* _bot_sender_config: BOT_SENDER_NAMES (lowered) and BOT_SENDER_IDS of the environment
BotSenderNames == {<<"r","o","b","o">>}
BotSenderIds == {<<"7">>}

\* _sender_identity
SenderIdentity(msg) ==
    [id |-> IF msg.sender.id = 0 THEN <<>> ELSE StrOfNat(msg.sender.id),
     name |-> Strip(msg.sender.name)]

\* _is_bot_sender
IsBotSender(msg) ==
    LET sender_type == MessageSenderType(msg)
        identity == SenderIdentity(msg)
    IN  IF sender_type \in {S_agentbot, S_bot} THEN TRUE
        ELSE IF BotSenderNames = {} /\ BotSenderIds = {} THEN FALSE
        ELSE IF identity.id # <<>> /\ identity.id \in BotSenderIds THEN TRUE
        ELSE identity.name # <<>> /\ LowerStr(identity.name) \in BotSenderNames

\* The sender type alone.
IsAgentSenderByTypeOnly(msg) == MessageSenderType(msg) \in {S_user, S_agent}

\* _is_agent_sender
IsAgentSender(msg) ==
    IF IsBotSender(msg) THEN FALSE ELSE MessageSenderType(msg) \in {S_user, S_agent}

\* _include_message_for_type
IncludeMessageForType(msg, conversation_type) ==
    IF conversation_type = "Todos" THEN TRUE
    ELSE LET direction == MessageDirection(msg) IN
         IF direction = "incoming" THEN TRUE
         ELSE IF direction = "outgoing" /\ conversation_type = "Bot" THEN IsBotSender(msg)
         ELSE IF direction = "outgoing" /\ conversation_type = "Agente"
              THEN IsAgentSender(msg) /\ ~IsBotSender(msg)
         ELSE FALSE

PrivateFlagBoolOnly(msg) == msg.private.t = "bool" /\ msg.private.i # 0

\* is_private = msg.get("private"); a str is true iff strip().lower() is in
\* ("true", "1", "yes", "sim"); then `if is_private:`
PrivateFlag(msg) ==
    LET is_private == msg.private IN
    IF is_private.t = "str"
    THEN LowerStr(Strip(is_private.s)) \in {S_true, <<"1">>, <<"y","e","s">>, <<"s","i","m">>}
    ELSE is_private.t \in {"int", "bool"} /\ is_private.i # 0

\* msg_dt = _parse_ts(msg.get("created_at") or msg.get("timestamp"))
MsgInstant(msg) == ParseTs(PyOr(msg.created_at, msg.timestamp))

\* if msg_dt: if msg_local < start_dt or msg_local > end_dt: continue
DateRejects(msg, f) ==
    LET msg_dt == MsgInstant(msg) IN
    msg_dt # NoTs /\ (msg_dt < StartOfDay(f.start_date) \/ msg_dt > EndOfDay(f.end_date))

\* if selected_message_statuses and str(status_val) not in selected_message_statuses: continue
StatusRejects(msg, selected_message_statuses) ==
    LET status_str == IF msg.status = PyNone THEN "None" ELSE msg.status IN
    selected_message_statuses # {} /\ status_str \notin selected_message_statuses

(***************************************************************************)
(* The aggregation: render_conversations_analysis_tab (lines 1343-1507)    *)
(* and _build_insights_context (lines 456-636)                             *)
(***************************************************************************)
SeqToSet(q) == {q[i] : i \in 1 .. Len(q)}

\* A pool with one worker per id.
MaxWorkersPerId(n) == IF n < 1 THEN 1 ELSE n

\* max_workers = min(3, max(1, len(message_conv_ids)))
MaxWorkers(n) == IF n < 1 THEN 1 ELSE IF n > 3 THEN 3 ELSE n
\* batch_size = max_workers * 2
BatchSize(n) == MaxWorkers(n) * 2
\* _chunk_list(values, size): number of chunks, and the positions of chunk b
NumBatches(n) == (n + BatchSize(n) - 1) \div BatchSize(n)
BatchPositions(b, n) ==
    ((b - 1) * BatchSize(n) + 1) .. (IF b * BatchSize(n) < n THEN b * BatchSize(n) ELSE n)

\* What _fetch_messages gives for a conversation: its list, or an exception.
Fetched(msgs) == [ok |-> TRUE, msgs |-> msgs]
FetchFails == [ok |-> FALSE, msgs |-> <<>>]

\* conv_analysis_stats is None
NoStats == [absent |-> TRUE]

\* conv_meta[conv_id]["created_dt"]: of the last conversation carrying the id;
\* conv_meta.get(conv_id) or {} otherwise
ConvMetaCreated(convs, scope_ids, conv_id) ==
    LET at == {i \in 1 .. Len(convs) :
                  ConvId(convs[i]) = conv_id /\ ConvId(convs[i]) \in scope_ids}
    IN  IF at = {} THEN NoTs
        ELSE ParseTs(convs[CHOOSE i \in at : \A j \in at : j <= i].created_at)

\* The locals at the top of one pass of the as_completed loop.
NewLocals(conv_id, msgs) ==
    [conv_id |-> conv_id, msgs |-> msgs, pos |-> 1,
     has_bot_outgoing |-> FALSE, has_agent_outgoing |-> FALSE,
     conv_received |-> 0, conv_sent |-> 0, conv_priv |-> 0,
     conv_rows |-> <<>>, conv_msg_count |-> 0,
     direction |-> PyNone, verdict |-> "none"]

\* The accumulators before the first batch.
TotZero ==
    [total_recebidas |-> 0, total_enviadas |-> 0, total_privadas |-> 0,
     total_mensagens |-> 0, conversas_privadas |-> {}, allowed_conv_ids |-> {},
     message_rows |-> <<>>]

\* The dict appended to conv_rows.
MessageRow(conv_id, msg, created_dt) ==
    [id_conversa |-> conv_id, msg_id |-> msg.id, status |-> msg.status,
     sort_conv_dt |-> created_dt, sort_msg_dt |-> MsgInstant(msg)]

\* should_add_rows = conv_id in table_conv_set (analysis tab); the insights
\* context builder appends unconditionally
ShouldAddRows(m, conv_id, table_conv_set) ==
    m = "insights" \/ conv_id \in table_conv_set

\* One pass of `for msg in msgs`; verdict names the continue that ended it.
MessageStep(l, msg, f, m, table_conv_set, created_dt) ==
    LET next == [l EXCEPT !.pos = l.pos + 1] IN
    IF DateRejects(msg, f) THEN [next EXCEPT !.verdict = "date"]
    ELSE IF StatusRejects(msg, SelectedMessageStatuses(f.message_statuses))
    THEN [next EXCEPT !.verdict = "status"]
    ELSE
    LET direction == MessageDirection(msg)
        seen == [next EXCEPT
                   !.direction = direction,
                   !.has_bot_outgoing = l.has_bot_outgoing
                        \/ (direction = "outgoing" /\ IsBotSender(msg)),
                   !.has_agent_outgoing = l.has_agent_outgoing
                        \/ (direction = "outgoing" /\ ~IsBotSender(msg) /\ IsAgentSender(msg))]
    IN  IF ~IncludeMessageForType(msg, f.conversation_type)
        THEN [seen EXCEPT !.verdict = "type"]
        ELSE [seen EXCEPT
                !.verdict = "counted",
                !.conv_priv = l.conv_priv + (IF PrivateFlag(msg) THEN 1 ELSE 0),
                !.conv_received = l.conv_received + (IF direction = "incoming" THEN 1 ELSE 0),
                !.conv_sent = l.conv_sent + (IF direction = "outgoing" THEN 1 ELSE 0),
                !.conv_rows = IF ShouldAddRows(m, l.conv_id, table_conv_set)
                              THEN Append(l.conv_rows, MessageRow(l.conv_id, msg, created_dt))
                              ELSE l.conv_rows,
                !.conv_msg_count = IF m = "insights" THEN l.conv_msg_count + 1
                                   ELSE l.conv_msg_count]

TypeGateBotOnly(conversation_type, has_bot_outgoing, has_agent_outgoing) ==
    /\ ~(conversation_type = "Bot" /\ (~has_bot_outgoing \/ has_agent_outgoing))
    /\ ~(conversation_type = "Agente" /\ ~has_agent_outgoing)

\* if conversation_type == "Bot" and not has_bot_outgoing: continue
\* if conversation_type == "Agente" and not has_agent_outgoing: continue
TypeGate(conversation_type, has_bot_outgoing, has_agent_outgoing) ==
    /\ ~(conversation_type = "Bot" /\ ~has_bot_outgoing)
    /\ ~(conversation_type = "Agente" /\ ~has_agent_outgoing)

\* Every conversation added is put among the private ones.
AddConversationMarksAll(t, l) ==
    [total_recebidas |-> t.total_recebidas + l.conv_received,
     total_enviadas |-> t.total_enviadas + l.conv_sent,
     total_privadas |-> t.total_privadas + l.conv_priv,
     total_mensagens |-> t.total_mensagens + l.conv_msg_count,
     conversas_privadas |-> t.conversas_privadas \cup {l.conv_id},
     allowed_conv_ids |-> t.allowed_conv_ids \cup {l.conv_id},
     message_rows |-> t.message_rows \o l.conv_rows]

\* The tail of a pass: allowed_conv_ids.add(conv_id) and the += of the totals.
AddConversation(t, l) ==
    [total_recebidas |-> t.total_recebidas + l.conv_received,
     total_enviadas |-> t.total_enviadas + l.conv_sent,
     total_privadas |-> t.total_privadas + l.conv_priv,
     total_mensagens |-> t.total_mensagens + l.conv_msg_count,
     conversas_privadas |-> IF l.conv_priv # 0 THEN t.conversas_privadas \cup {l.conv_id}
                            ELSE t.conversas_privadas,
     allowed_conv_ids |-> t.allowed_conv_ids \cup {l.conv_id},
     message_rows |-> t.message_rows \o l.conv_rows]

RowKeyLessByNumber(a, b) ==
    \/ a.sort_conv_dt < b.sort_conv_dt
    \/ /\ a.sort_conv_dt = b.sort_conv_dt
       /\ \/ a.id_conversa < b.id_conversa
          \/ a.id_conversa = b.id_conversa /\ a.sort_msg_dt < b.sort_msg_dt

\* The sort key: (_sort_conv_dt or datetime.min, str(id_conversa), _sort_msg_dt or datetime.min)
RowKeyLess(a, b) ==
    \/ a.sort_conv_dt < b.sort_conv_dt
    \/ /\ a.sort_conv_dt = b.sort_conv_dt
       /\ \/ StrLess(StrOfNat(a.id_conversa), StrOfNat(b.id_conversa))
          \/ a.id_conversa = b.id_conversa /\ a.sort_msg_dt < b.sort_msg_dt

RECURSIVE InsertRow(_, _)
InsertRow(sorted, r) ==
    IF sorted = <<>> THEN <<r>>
    ELSE IF RowKeyLess(r, sorted[Len(sorted)])
    THEN Append(InsertRow(SubSeq(sorted, 1, Len(sorted) - 1), r), sorted[Len(sorted)])
    ELSE Append(sorted, r)

SortRowsKeepsOrder(message_rows) == message_rows

\* message_rows.sort(key=...): stable
RECURSIVE SortRows(_)
SortRows(message_rows) ==
    IF message_rows = <<>> THEN <<>>
    ELSE InsertRow(SortRows(SubSeq(message_rows, 1, Len(message_rows) - 1)),
                   message_rows[Len(message_rows)])

\* if conversation_type != "Todos": rows = [row for row in rows if ... in allowed_conv_ids]
FinalRows(strict_rows, t, conversation_type) ==
    LET Allowed(conversation_id) == conversation_id \in t.allowed_conv_ids IN
    IF conversation_type # "Todos" THEN SelectSeq(strict_rows, Allowed) ELSE strict_rows

\* The stats dict.
FinalStats(final_rows, t, m) ==
    IF m = "insights"
    THEN [total_conversas |-> Len(final_rows),
          total_conversas_privadas |-> Cardinality(t.conversas_privadas),
          total_recebidas |-> t.total_recebidas,
          total_enviadas |-> t.total_enviadas,
          total_privadas |-> t.total_privadas,
          total_mensagens |-> t.total_mensagens]
    ELSE [total_conversas |-> Len(final_rows),
          total_conversas_privadas |-> Cardinality(t.conversas_privadas),
          total_recebidas |-> t.total_recebidas,
          total_enviadas |-> t.total_enviadas,
          total_privadas |-> t.total_privadas]

(***************************************************************************)
(* The steps of the aggregation                                            *)
(***************************************************************************)
message_status_options == {"Todos", "sent", "delivered", "read", "failed", "pending"}

\* The code after the last batch: the filter of rows, the sort, the stats.
Finalize(strict_rows, t) ==
    LET final_rows == FinalRows(strict_rows, t, filters.conversation_type) IN
    /\ rows' = final_rows
    /\ messages' = SortRows(t.message_rows)
    /\ stats' = FinalStats(final_rows, t, mode)
    /\ apc' = "done" /\ pending' = {} /\ batch_no' = batch_no

\* The end of one pass of the as_completed loop: the next future, else the
\* next batch, else the code after the loops.
AfterConversation(pending_new, t) ==
    IF pending_new # {}
    THEN /\ apc' = "wait" /\ pending' = pending_new
         /\ UNCHANGED <<batch_no, rows, stats, messages>>
    ELSE IF batch_no < NumBatches(Len(message_conv_ids))
    THEN /\ apc' = "wait" /\ batch_no' = batch_no + 1
         /\ pending' = BatchPositions(batch_no + 1, Len(message_conv_ids))
         /\ UNCHANGED <<rows, stats, messages>>
    ELSE Finalize(rows, t)

\* A run of the page in which "Gerar" was not clicked.
NoClick == [absent |-> TRUE]

\* The user changes the message-status multiselect: the on_change callback,
\* then the rerun of _render_conversation_filters up to the filters dict.
ChangeMessageStatuses(selection) ==
    /\ apc = "idle"
    /\ LET on_change == NormalizeMessageStatuses(selection, message_status_options)
           rerun == NormalizeMessageStatuses(on_change, message_status_options)
       IN  /\ session_statuses' = rerun
           /\ filters' = [filters EXCEPT
                            !.message_statuses = IF rerun = {} THEN {"Todos"} ELSE rerun]
    /\ error' = "" /\ click' = NoClick
    /\ UNCHANGED <<fetchVars, sampleVars, botVars, adminVars, conv_results, mode, conversations, remote,
                   apc, rows, conv_api_ids, message_scope_rows, message_conv_ids, batch_no,
                   pending, completed, cur, tot, stats, messages, warnings>>

\* No period is refused.
InvalidPeriodNever(f) == FALSE

\* if filters["start_date"] > filters["end_date"]
InvalidPeriod(f) == f.start_date > f.end_date

\* The run of the page in which "Gerar" was clicked.
Click(raises) ==
    [mode |-> mode, start_date |-> filters.start_date, end_date |-> filters.end_date,
     raises |-> raises]

\* "Gerar" of the analysis or insights tab with a valid period and the
\* conversations fetched: the two passes of _collect_conversation_rows, then
\* the first batch is submitted.
Gerar ==
    /\ apc \in {"idle", "done"} /\ mode \in {"analysis", "insights"}
    /\ ~InvalidPeriod(filters)
    /\ error' = "" /\ click' = Click(FALSE)
    /\ LET strict == CollectConversationRows(conversations, filters, TRUE)
           relaxed == CollectConversationRows(conversations, filters, FALSE)
           n == Len(relaxed.ids)
       IN  /\ conv_api_ids' = strict.ids
           /\ message_scope_rows' = relaxed.rows
           /\ message_conv_ids' = relaxed.ids
           /\ cur' = NewLocals(IdNone, <<>>) /\ warnings' = 0 /\ completed' = {}
           /\ IF mode = "analysis" /\ strict.rows = <<>>
              THEN /\ rows' = strict.rows
                   /\ stats' = NoStats /\ messages' = <<>>
                   /\ apc' = "done" /\ pending' = {} /\ batch_no' = 0
                   /\ tot' = TotZero
              ELSE /\ tot' = TotZero
                   /\ IF n = 0
                      THEN /\ Finalize(strict.rows, TotZero)
                      ELSE /\ rows' = strict.rows
                           /\ apc' = "wait" /\ batch_no' = 1
                           /\ pending' = BatchPositions(1, n)
                           /\ UNCHANGED <<stats, messages>>
    /\ UNCHANGED <<fetchVars, sampleVars, botVars, adminVars, conv_results, mode, filters,
                   session_statuses, conversations, remote>>

\* "Gerar" of the conversations tab with a valid period and the conversations
\* fetched: the strict pass, stored in session state.
GerarConversations ==
    /\ apc \in {"idle", "done"} /\ mode = "conversations"
    /\ ~InvalidPeriod(filters)
    /\ conv_results' = CollectConversationRows(conversations, filters, TRUE).rows
    /\ error' = "" /\ click' = Click(FALSE)
    /\ UNCHANGED <<fetchVars, aggVars, sampleVars, botVars, adminVars>>

\* "Gerar" of the conversations or analysis tab that fails: the period is
\* invalid, or it is valid and _fetch_conversations raises. st.error, return.
GerarFails(raises) ==
    /\ apc \in {"idle", "done"} /\ mode \in {"conversations", "analysis"}
    /\ InvalidPeriod(filters) \/ raises
    /\ error' = IF InvalidPeriod(filters) THEN "Período inválido" ELSE "Falha ao buscar conversas"
    /\ click' = Click(~InvalidPeriod(filters) /\ raises)
    /\ UNCHANGED <<fetchVars, aggVars, sampleVars, botVars, adminVars, conv_results>>

\* The user changes the date inputs: a run of the page without "Gerar".
ChangeDates(start_date, end_date) ==
    /\ apc \in {"idle", "done"}
    /\ filters' = [filters EXCEPT !.start_date = start_date, !.end_date = end_date]
    /\ error' = "" /\ click' = NoClick
    /\ UNCHANGED <<fetchVars, sampleVars, botVars, adminVars, conv_results, mode, session_statuses,
                   conversations, remote, apc, rows, conv_api_ids, message_scope_rows,
                   message_conv_ids, batch_no, pending, completed, cur, tot, stats,
                   messages, warnings>>

\* The user opens the other tab: a run of the page without "Gerar".
SwitchTab(tab) ==
    /\ apc \in {"idle", "done"} /\ tab # mode
    /\ mode' = tab
    /\ error' = "" /\ click' = NoClick
    /\ UNCHANGED <<fetchVars, sampleVars, botVars, adminVars, conv_results, filters, session_statuses,
                   conversations, remote, apc, rows, conv_api_ids, message_scope_rows,
                   message_conv_ids, batch_no, pending, completed, cur, tot, stats,
                   messages, warnings>>

FutureRaisesAborts(i) ==
    /\ apc = "wait" /\ i \in completed
    /\ ~remote[message_conv_ids[i]].ok
    /\ apc' = "done"
    /\ UNCHANGED <<fetchVars, extVars, mode, filters, session_statuses, conversations, remote,
                   rows, conv_api_ids, message_scope_rows, message_conv_ids, batch_no,
                   pending, completed, cur, tot, stats, messages, warnings>>

\* The fetches a worker of the pool is running: ThreadPoolExecutor starts the
\* submitted calls in submission order, one per free worker, so of the batch
\* the first max_workers + (number already over) have started.
Running ==
    LET n == Len(message_conv_ids)
        batch == IF batch_no = 0 THEN {} ELSE BatchPositions(batch_no, n)
        over == (batch \ pending) \cup completed
        started == {i \in batch :
                       Cardinality({j \in batch : j < i}) < MaxWorkers(n) + Cardinality(over)}
    IN  started \ over

\* _fetch_messages of position i returns or raises in its worker thread.
FetchCompletes(i) ==
    /\ apc \in {"wait", "msgs"} /\ i \in Running
    /\ completed' = completed \cup {i}
    /\ UNCHANGED <<fetchVars, extVars, mode, filters, session_statuses, conversations, remote,
                   apc, rows, conv_api_ids, message_scope_rows, message_conv_ids, batch_no,
                   pending, cur, tot, stats, messages, warnings>>

\* as_completed yields the future of position i and future.result() raises.
FutureRaises(i) ==
    /\ apc = "wait" /\ i \in completed
    /\ ~remote[message_conv_ids[i]].ok
    /\ warnings' = IF mode = "analysis" THEN warnings + 1 ELSE warnings
    /\ completed' = completed \ {i}
    /\ AfterConversation(pending \ {i}, tot)
    /\ UNCHANGED <<fetchVars, extVars, mode, filters, session_statuses, conversations, remote,
                   conv_api_ids, message_scope_rows, message_conv_ids, cur, tot>>

\* as_completed yields the future of position i and future.result() gives msgs.
FutureReturns(i) ==
    /\ apc = "wait" /\ i \in completed
    /\ remote[message_conv_ids[i]].ok
    /\ cur' = NewLocals(message_conv_ids[i], remote[message_conv_ids[i]].msgs)
    /\ apc' = "msgs" /\ pending' = pending \ {i} /\ completed' = completed \ {i}
    /\ UNCHANGED <<fetchVars, extVars, mode, filters, session_statuses, conversations, remote,
                   rows, conv_api_ids, message_scope_rows, message_conv_ids, batch_no,
                   tot, stats, messages, warnings>>

\* One pass of `for msg in msgs`.
ProcessMessage ==
    /\ apc = "msgs" /\ cur.pos <= Len(cur.msgs)
    /\ cur' = MessageStep(cur, cur.msgs[cur.pos], filters, mode, SeqToSet(conv_api_ids),
                          ConvMetaCreated(conversations, SeqToSet(message_conv_ids),
                                          cur.conv_id))
    /\ UNCHANGED <<fetchVars, extVars, mode, filters, session_statuses, conversations, remote, apc,
                   rows, conv_api_ids, message_scope_rows, message_conv_ids, batch_no,
                   pending, completed, tot, stats, messages, warnings>>

\* `for msg in msgs` is over: the type gate, the totals, and what follows.
EndConversation ==
    /\ apc = "msgs" /\ cur.pos > Len(cur.msgs)
    /\ tot' = IF TypeGate(filters.conversation_type, cur.has_bot_outgoing,
                          cur.has_agent_outgoing)
              THEN AddConversation(tot, cur) ELSE tot
    /\ AfterConversation(pending, tot')
    /\ UNCHANGED <<fetchVars, extVars, mode, filters, session_statuses, conversations, remote,
                   conv_api_ids, message_scope_rows, message_conv_ids, completed, cur,
                   warnings>>

Selections ==
    {{}, {"Todos"}, {"sent"}, {"Todos", "sent"}, {"sent", "failed"}}

NextAgg ==
    \/ \E selection \in Selections : ChangeMessageStatuses(selection)
    \/ Gerar
    \/ \E i \in pending : FetchCompletes(i)
    \/ \E i \in pending : FutureRaises(i)
    \/ \E i \in pending : FutureReturns(i)
    \/ ProcessMessage
    \/ EndConversation

\* The conversations and analysis tabs of one session, with the period inputs.
NextTabs ==
    \/ NextAgg
    \/ GerarConversations
    \/ \E raises \in BOOLEAN : GerarFails(raises)
    \/ \E start_date \in 1..2, end_date \in 1..2 : ChangeDates(start_date, end_date)
    \/ \E tab \in {"conversations", "analysis"} : SwitchTab(tab)

\* Before the sample is built.
SampleIdle ==
    /\ spc = "idle" /\ sample_rows = <<>> /\ max_messages = 0 /\ max_chars = 0
    /\ count = 0 /\ total_chars = 0 /\ lines = <<>>

\* The bot service at start: the module-level globals of bot_start.py.
BotStart ==
    /\ mensagens_processadas = {} /\ historico_conversas = <<>> /\ tasks = <<>>
    /\ posted = <<>> /\ logged = <<>> /\ llm_calls = <<>> /\ deliveries = <<>>
    /\ request = [absent |-> TRUE] /\ task_done = [absent |-> TRUE]

\* load_settings() returning None: no row in the settings table
NoConfig == [absent |-> TRUE]

BotIdle == config = NoConfig /\ BotStart

\* No "Gerar" yet in the session.
TabIdle == conv_results = <<>> /\ error = "" /\ click = NoClick

\* The prompts tab before its first run, over an empty table.
NoPromptOp == [n |-> 0, op |-> "none"]

PromptIdle ==
    /\ insight_prompts = {} /\ prompt_seq = 0 /\ insight_prompt_selected_id = 0
    /\ prompt_op = NoPromptOp

\* No settings row, a dashboard process that rendered nothing yet, no webhook server.
NoSettings == [absent |-> TRUE]

NoSettingsOp == [n |-> 0, op |-> "none", called |-> FALSE, enabled |-> FALSE]

SettingsIdle ==
    /\ settings = NoSettings /\ BOOTSTRAPPED = FALSE /\ procps = TRUE /\ webhook = FALSE
    /\ settings_op = NoSettingsOp

\* A session that has not opened the insights tab.
NoValue == [absent |-> TRUE]

NoLabel == [id |-> 0, name |-> <<>>]

DefaultWidgets ==
    [start_date |-> 1, end_date |-> 1, status |-> "Todos", message_statuses |-> {"Todos"},
     insight_prompt |-> NoLabel]

NoInsights ==
    [last_signature |-> NoValue, summary |-> NoValue, context |-> NoValue, prompt_id |-> 0,
     output |-> NoValue, pending |-> FALSE]

NoInsightsOp == [n |-> 0, op |-> "none", generated |-> NoValue]

InsightsIdle ==
    /\ conv_insights_widgets = DefaultWidgets /\ conv_insights = NoInsights
    /\ insights_calls = <<>> /\ insights_op = NoInsightsOp

AdminIdle == PromptIdle /\ SettingsIdle /\ InsightsIdle

ExtIdle == SampleIdle /\ BotIdle /\ TabIdle /\ AdminIdle

(***************************************************************************)
(* The data the runs start from                                            *)
(***************************************************************************)
Conv(id, display_id, inbox_id, name, phone_number, assignee_id, status, team_id, created_at) ==
    [id |-> id, display_id |-> display_id, inbox_id |-> inbox_id, name |-> name,
     identifier |-> <<>>, phone_number |-> phone_number, phone |-> <<>>,
     assignee_id |-> assignee_id, status |-> status, team_id |-> team_id,
     created_at |-> created_at]

\* The defaults of _render_conversation_filters, over the one-day range [2, 3].
BaseFilters ==
    [conversation_id_filter |-> <<>>, selected_inbox_ids |-> {}, contact_name |-> <<>>,
     contact_number |-> <<>>, selected_agent_id |-> IdNone, assigned_filter |-> "Todos",
     status_filter |-> "Todos", selected_team_id |-> IdNone, start_date |-> 1,
     end_date |-> 1, conversation_type |-> "Todos", message_statuses |-> {"Todos"}]

S_Ana == <<"A","n","a">>
S_Bia == <<"B","i","a">>
S_5511 == <<"5","5","1","1">>
S_5599 == <<"5","5","9","9">>

\* Conversations for the filter: created in range, unparseable, after the range,
\* before the range; one known by its display_id only; one with no id at all.
ConvUniverse ==
    { Conv(10, 10, 1, S_Ana, S_5511, 4, "open", 1, TsIso(2)),
      Conv(2, 2, 2, S_Bia, S_5599, IdNone, "resolved", IdNone, TsBad),
      Conv(3, 3, 1, S_Ana, S_5599, 4, "open", 1, TsInt(5)),
      Conv(4, 4, 2, S_Bia, S_5511, IdNone, "open", 1, TsNumStr(1)),
      Conv(6, 6, 2, S_Bia, S_5511, IdNone, "snoozed", IdNone, TsInt(3)),
      Conv(IdNone, 7, 1, S_Ana, <<>>, 4, "pending", IdNone, TsInt(3)),
      [Conv(5, 5, 1, <<>>, <<>>, 4, "open", 1, TsNone) EXCEPT !.identifier = S_Ana],
      Conv(IdNone, IdNone, 1, S_Ana, S_5511, 4, "open", 1, TsIso(2)) }

FilterUniverse ==
    { BaseFilters,
      [BaseFilters EXCEPT !.conversation_id_filter = <<" ", "1", "0">>],
      [BaseFilters EXCEPT !.selected_inbox_ids = {1}],
      [BaseFilters EXCEPT !.contact_name = <<"a", "*", "A">>],
      [BaseFilters EXCEPT !.contact_number = <<"5", "5", "*", "9">>],
      [BaseFilters EXCEPT !.selected_agent_id = 4],
      [BaseFilters EXCEPT !.assigned_filter = "Sim"],
      [BaseFilters EXCEPT !.assigned_filter = "Não"],
      [BaseFilters EXCEPT !.status_filter = "open"],
      [BaseFilters EXCEPT !.selected_team_id = 1],
      [BaseFilters EXCEPT !.selected_inbox_ids = {2}, !.contact_name = <<"b", "i">>,
                          !.conversation_type = "Bot"] }

\* Messages: instants 2 and 3 are in range, 5 is after it.
BotMsg == Msg(1, TsIso(2), "sent", VStr(<<"1">>), S_agentbot, NoSender, VNone)
InMsg == Msg(3, TsIso(3), "failed", VInt(0), <<>>, Sender(<<"c","o","n","t","a","c","t">>, 3, S_Ana), VNone)

\* An agentbot message, then one of sender type "User".
BotAndUser ==
    <<BotMsg, Msg(2, TsInt(3), "sent", VInt(1), <<"U","s","e","r">>, NoSender, VBool(FALSE))>>
OnlyBot == <<BotMsg>>
\* An incoming message, a private note of an agent, a message of unknown type
\* with neither instant nor status.
Mixed ==
    << InMsg,
       Msg(4, TsIso(2), "sent", VStr(S_outgoing), <<>>, Sender(S_agent, 4, S_Bia), VStr(S_true)),
       Msg(5, TsNone, PyNone, VInt(5), <<>>, NoSender, VNone) >>
\* A bot message after the range, then an incoming one.
LateBot == <<Msg(6, TsIso(5), "sent", VInt(1), S_bot, NoSender, VNone), InMsg>>

\* The aggregation runs over three conversations: 10 and 2 created at the same
\* instant of the range, 3 with no creation instant (relaxed pass only).
AggConversations ==
    << Conv(10, 10, 1, S_Ana, S_5511, 4, "open", 1, TsIso(2)),
       Conv(2, 2, 1, S_Bia, S_5599, 4, "open", 1, TsInt(2)),
       Conv(3, 3, 1, S_Ana, S_5511, 4, "open", 1, TsNone) >>

AggRemotes ==
    { [id \in {10, 2, 3} |-> IF id = 10 THEN a ELSE IF id = 2 THEN b ELSE c] :
        a \in {Fetched(BotAndUser), Fetched(Mixed), FetchFails},
        b \in {Fetched(OnlyBot), Fetched(LateBot), Fetched(Mixed), Fetched(<<>>), FetchFails},
        c \in {Fetched(OnlyBot), Fetched(Mixed), FetchFails} }

ConversationTypes == {"Agente", "Bot", "Todos"}

\* Session state before the first "Gerar".
AggStart ==
    /\ session_statuses = {"Todos"}
    /\ apc = "idle" /\ rows = <<>> /\ conv_api_ids = <<>> /\ message_scope_rows = <<>>
    /\ message_conv_ids = <<>> /\ batch_no = 0 /\ pending = {} /\ completed = {}
    /\ cur = NewLocals(IdNone, <<>>)
    /\ tot = TotZero /\ stats = NoStats /\ messages = <<>> /\ warnings = 0

AggIdle ==
    /\ mode = "analysis" /\ filters = BaseFilters /\ conversations = <<>>
    /\ remote = [id \in {} |-> FetchFails]
    /\ AggStart

InitAgg ==
    /\ FetchIdle /\ ExtIdle /\ AggStart
    /\ mode \in {"analysis", "insights"}
    /\ \E t \in ConversationTypes : filters = [BaseFilters EXCEPT !.conversation_type = t]
    /\ conversations = AggConversations
    /\ remote \in AggRemotes

SpecAgg == InitAgg /\ [][NextAgg]_vars

\* Runs of the filter: any two conversations under any of the filters.
InitFilter ==
    /\ FetchIdle /\ ExtIdle /\ AggStart
    /\ mode \in {"analysis", "insights"}
    /\ filters \in FilterUniverse
    /\ \E a \in ConvUniverse, b \in ConvUniverse : conversations = <<a, b>>
    /\ \E r \in {Fetched(Mixed), FetchFails} : remote = [id \in {10, 2, 3, 4, 5, 6} |-> r]

SpecFilter == InitFilter /\ [][NextAgg]_vars

MessageTypeValues ==
    { VNone, VInt(0), VInt(1), VInt(2), VInt(-1), VBool(TRUE), VBool(FALSE),
      VFloat(<<"0", ".", "0">>), VFloat(<<"1", ".", "0">>),
      VStr(<<"0">>), VStr(<<"1">>), VStr(<<"2">>), VStr(<<"0", "0">>), VStr(<<"0", "1">>),
      VStr(<<"1", "0">>), VStr(<<" ", "1">>), VStr(<<>>), VStr(<<"i", "n">>),
      VStr(S_incoming), VStr(S_outgoing),
      VStr(<<"I","N","C","O","M","I","N","G">>), VStr(<<"O","u","t","g","o","i","n","g">>) }

PrivateValues ==
    { VNone, VBool(TRUE), VBool(FALSE), VInt(1), VInt(0), VStr(S_true),
      VStr(<<" ", "T", "R", "U", "E", " ">>), VStr(<<"f","a","l","s","e">>), VStr(<<"s","i","m">>),
      VStr(<<"1">>), VStr(<<"0">>), VStr(<<>>) }

SenderValues ==
    { [sender_type |-> <<" ", "B", "o", "t", " ">>, sender |-> NoSender],
      [sender_type |-> <<>>, sender |-> Sender(S_user, 7, <<>>)],
      [sender_type |-> <<>>, sender |-> Sender(<<>>, 3, <<" ", "R", "o", "b", "o">>)],
      [sender_type |-> <<>>, sender |-> Sender(S_agent, 3, S_Ana)],
      [sender_type |-> <<>>, sender |-> NoSender] }

MsgUniverse ==
    { Msg(1, TsIso(2), "sent", mt, sty, NoSender, pv) :
        mt \in MessageTypeValues, sty \in {<<>>, S_agentbot}, pv \in {VNone, VStr(S_true)} }
    \cup
    { Msg(1, TsInt(3), "sent", mt, S_user, NoSender, pv) :
        mt \in {VInt(0), VInt(1), VInt(5)}, pv \in PrivateValues }
    \cup
    { Msg(1, cr, st, VInt(1), sv.sender_type, sv.sender, VNone) :
        cr \in {TsIso(2), TsNone, TsInt(5), TsBad}, st \in {"sent", "failed", PyNone},
        sv \in SenderValues }
    \cup
    { [Msg(1, TsNone, "sent", VInt(0), <<>>, NoSender, VNone) EXCEPT !.timestamp = ts] :
        ts \in {TsInt(3), TsNumStr(1)} }

\* Runs over one conversation holding one message of any shape.
InitMsg ==
    /\ FetchIdle /\ ExtIdle /\ AggStart
    /\ mode \in {"analysis", "insights"}
    /\ \E t \in ConversationTypes : filters = [BaseFilters EXCEPT !.conversation_type = t]
    /\ conversations = <<Conv(2, 2, 1, S_Bia, S_5599, 4, "open", 1, TsInt(2))>>
    /\ \E r \in {Fetched(<<m>>) : m \in MsgUniverse} \cup {FetchFails} :
          remote = [id \in {2} |-> r]

SpecMsg == InitMsg /\ [][NextAgg]_vars

InitFetch == FetchIdle /\ AggIdle /\ ExtIdle

NextFetch ==
    \/ \E kind \in {"conversations", "messages"}, sd \in {2} : FetchCall(kind, sd)
    \/ \E jit \in Jitter : \E r \in Responses(fkind) : RlRespond(r, jit)
    \/ RlTransportError
    \/ RlReturnLast
    \/ HandleConversationsPage
    \/ HandleMessagesBatch
    \/ FetchReturn

SpecFetch == InitFetch /\ [][NextFetch]_vars

FairSpecFetch == SpecFetch /\ WF_vars(NextFetch)

(***************************************************************************)
(* The message sample of _build_insights_context (lines 687-705)           *)
(***************************************************************************)
content_limit == 240

\* content.replace("\n", " ")
ReplaceNewlines(content) ==
    [i \in 1 .. Len(content) |-> IF content[i] = "\n" THEN " " ELSE content[i]]

\* len(content) > 240: content[:240] + "..."
TruncateContent(content) ==
    IF Len(content) > content_limit
    THEN SubSeq(content, 1, content_limit) \o <<".", ".", ".">>
    ELSE content

\* f"- [{status}] conv {id_conversa} | {autor} | {data hora} | {content}"
SampleLine(row) ==
    <<"-", " ", "[">> \o row.status \o <<"]", " ", "c", "o", "n", "v", " ">>
    \o StrOfNat(row.id_conversa) \o <<" ", "|", " ">> \o row.autor
    \o <<" ", "|", " ">> \o row.data_hora \o <<" ", "|", " ">>
    \o TruncateContent(Strip(ReplaceNewlines(row.mensagem)))

\* f"... ({n} mensagens omitidas)"
FooterLine(n) ==
    <<".", ".", ".", " ", "(">> \o StrOfNat(n)
    \o <<" ", "m", "e", "n", "s", "a", "g", "e", "n", "s", " ",
         "o", "m", "i", "t", "i", "d", "a", "s", ")">>

\* if count >= max_messages or total_chars >= max_chars: break
SampleBreaks(n, chars, limit_messages, limit_chars) ==
    n >= limit_messages \/ chars >= limit_chars

\* One pass of `for row in message_rows` that appends a line.
SampleAppend ==
    /\ spc = "loop" /\ count < Len(sample_rows)
    /\ ~SampleBreaks(count, total_chars, max_messages, max_chars)
    /\ LET line == SampleLine(sample_rows[count + 1]) IN
          /\ lines' = Append(lines, line)
          /\ count' = count + 1
          /\ total_chars' = total_chars + Len(line)
    /\ UNCHANGED <<fetchVars, aggVars, botVars, tabVars, adminVars, spc, sample_rows, max_messages, max_chars>>

\* The loop ends (the rows are over, or break); the footer when rows are left.
SampleFooter ==
    /\ spc = "loop"
    /\ count = Len(sample_rows) \/ SampleBreaks(count, total_chars, max_messages, max_chars)
    /\ lines' = IF count < Len(sample_rows)
                THEN Append(lines, FooterLine(Len(sample_rows) - count))
                ELSE lines
    /\ spc' = "done"
    /\ UNCHANGED <<fetchVars, aggVars, botVars, tabVars, adminVars, sample_rows, max_messages, max_chars,
                   count, total_chars>>

NextSample == SampleAppend \/ SampleFooter

SampleRow(id, mensagem) ==
    [status |-> <<"s", "e", "n", "t">>, id_conversa |-> id, autor |-> S_Ana,
     data_hora |-> <<"0", "1", "/", "0", "2", " ", "1", "0", ":", "0", "0">>,
     mensagem |-> mensagem]

\* Contents: none, a short one, one with a line break and blanks around it, one
\* of exactly content_limit characters, one longer.
SampleContents ==
    { <<>>, <<"o", "i">>, <<" ", "a", "\n", "b", " ">>,
      [i \in 1 .. content_limit |-> "x"], [i \in 1 .. content_limit + 1 |-> "x"] }

\* Up to three rows under small limits; and, under the limits of the call of
\* line 1668 (160 messages, 12000 characters), 161 short rows and 49 long ones.
InitSample ==
    /\ FetchIdle /\ AggIdle /\ BotIdle /\ TabIdle /\ AdminIdle
    /\ spc = "loop" /\ count = 0 /\ total_chars = 0 /\ lines = <<>>
    /\ \/ /\ max_messages \in {0, 1, 2, 160}
          /\ max_chars \in {0, 1, 36, 37, 80, 12000}
          /\ \E n \in 0 .. 3 : \E c \in [1 .. n -> SampleContents] :
                sample_rows = [i \in 1 .. n |-> SampleRow(i + 8, c[i])]
       \/ /\ max_messages = 160 /\ max_chars = 12000
          /\ \/ sample_rows = [i \in 1 .. 161 |-> SampleRow(i, <<"o", "i">>)]
             \/ sample_rows = [i \in 1 .. 49 |-> SampleRow(i, [j \in 1 .. content_limit + 1 |-> "x"])]

SpecSample == InitSample /\ [][NextSample]_vars

(***************************************************************************)
(* The bot service: src/app/modules/bot/bot_start.py, src/src/bot/rules.py *)
(* and log_conversation of src/src/bot/engine.py.  A JSON value of the     *)
(* payload is one of the records VNone, VInt, VBool, VStr; opaque strings  *)
(* of the settings are TLA+ strings.                                       *)
(***************************************************************************)
\* ALLOWED_INBOX_ID = os.getenv("ALLOWED_INBOX_ID") or "88473"
ALLOWED_INBOX_ID == <<"8", "8", "4", "7", "3">>

\* bool(value)
PyTruthy(v) ==
    IF v.t = "none" THEN FALSE
    ELSE IF v.t \in {"int", "bool"} THEN v.i # 0
    ELSE v.s # <<>>

\* str(value) of an id
StrOfValue(v) == IF v.t = "int" THEN StrOfNat(v.i) ELSE PyStr(v)

\* default_schedule(): Monday to Friday, 8 to 18
DefaultSchedule == [i \in 0 .. 6 |-> [enabled |-> i < 5, start |-> 8, end |-> 18]]

\* fora_do_horario_comercial(config), at weekday dia and hour hora; a schedule
\* is a function from days to [enabled, start, end], empty when none is saved
ForaDoHorarioComercial(cfg, dia, hora) ==
    LET schedule == IF DOMAIN cfg.schedule = {} THEN DefaultSchedule ELSE cfg.schedule
        dia_cfg == IF dia \in DOMAIN schedule THEN schedule[dia]
                   ELSE [enabled |-> FALSE, start |-> 8, end |-> 18]
    IN  IF ~dia_cfg.enabled THEN TRUE
        ELSE ~(dia_cfg.start <= hora /\ hora < dia_cfg.end)

\* s.endswith(suffix)
EndsWith(s, suffix) ==
    Len(s) >= Len(suffix) /\ SubSeq(s, Len(s) - Len(suffix) + 1, Len(s)) = suffix

AudioSuffixes ==
    { <<".", "o", "g", "g">>, <<".", "o", "g", "a">>, <<".", "m", "p", "3">>,
      <<".", "w", "a", "v">>, <<".", "m", "4", "a">>, <<".", "a", "a", "c">> }

\* is_audio_attachment(att); an absent or empty field is <<>>
IsAudioAttachment(att) ==
    LET mime == LowerStr(StrOr(att.file_type, att.content_type))
        url == LowerStr(StrOr(att.data_url, att.url))
    IN  \/ Contains(mime, <<"a", "u", "d", "i", "o">>)
        \/ \E suffix \in AudioSuffixes : EndsWith(url, suffix)

S_Cliente == <<"C", "l", "i", "e", "n", "t", "e">>

\* extrair_primeiro_nome(data): the first word of the sender's name, title-cased
ExtrairPrimeiroNome(data) ==
    LET nome == LStrip(data.sender_name)
        stop == IF \E i \in 1 .. Len(nome) : nome[i] = " "
                THEN (CHOOSE i \in 1 .. Len(nome) :
                         nome[i] = " " /\ \A j \in 1 .. i - 1 : nome[j] # " ") - 1
                ELSE Len(nome)
        UpperChar(c) == IF \E i \in 1 .. 26 : LowerLetters[i] = c
                        THEN Upper[CHOOSE i \in 1 .. 26 : LowerLetters[i] = c]
                        ELSE c
    IN  IF nome = <<>> THEN S_Cliente
        ELSE [i \in 1 .. stop |-> IF i = 1 THEN UpperChar(nome[i]) ELSE LowerChar(nome[i])]

\* The acknowledgement body {"status": "ok"}, and the body of a bare `return`
\* (None).
AckOk == "{\"status\": \"ok\"}"
AckNull == "null"

NoTask == [conversation_id |-> VNone]
NoPost == [conversation_id |-> VNone]
Task(conversation_id, primeiro_nome, user_message, inbox_id) ==
    [conversation_id |-> conversation_id, primeiro_nome |-> primeiro_nome,
     user_message |-> user_message, inbox_id |-> inbox_id]
Post(conversation_id, content, status_code) ==
    [conversation_id |-> conversation_id, content |-> content, status_code |-> status_code]

\* What one run of chatwoot_webhook does: the stage it ends at, the body it
\* returns, the set of handled ids, the task it adds, the message it posts.
Outcome(stage, ack, seen, task, post) ==
    [stage |-> stage, ack |-> ack, seen |-> seen, task |-> task, post |-> post]

\* not config or not config.get("bot_enabled", True)
ConfigOff(cfg) == cfg = NoConfig \/ ~cfg.bot_enabled

\* not all([chatwoot_url, chatwoot_token, chatwoot_account])
CredentialsMissing(cfg) ==
    cfg.chatwoot_url = "" \/ cfg.chatwoot_api_token = "" \/ cfg.chatwoot_account_id = ""

\* The fields read from the payload: from the top level, or from data["data"]
\* when the top level gives no conversation id.
PayloadFields(data) ==
    IF PyTruthy(data.conversation.id)
    THEN [content |-> data.content, msg_type |-> data.message_type,
          is_private |-> data.private, attachments |-> data.attachments,
          message_id |-> IF PyTruthy(data.id) THEN data.id ELSE data.message_id,
          conversation_id |-> data.conversation.id,
          inbox_id |-> data.conversation.inbox_id]
    ELSE LET top_id == IF PyTruthy(data.id) THEN data.id ELSE data.message_id
             nested_id == IF PyTruthy(data.nested.id) THEN data.nested.id
                          ELSE data.nested.message_id
         IN [content |-> data.nested.content, msg_type |-> data.nested.message_type,
             is_private |-> data.nested.private,
             attachments |-> IF data.nested.attachments # <<>> THEN data.nested.attachments
                             ELSE data.attachments,
             message_id |-> IF PyTruthy(top_id) THEN top_id ELSE nested_id,
             conversation_id |-> data.nested.conversation_id,
             inbox_id |-> IF PyTruthy(data.conversation.inbox_id)
                          THEN data.conversation.inbox_id ELSE data.nested.inbox_id]

InboxRejectsNever(inbox_id) == FALSE

\* inbox_id and str(inbox_id) != str(ALLOWED_INBOX_ID)
InboxRejects(inbox_id) ==
    PyTruthy(inbox_id) /\ StrOfValue(inbox_id) # ALLOWED_INBOX_ID

DuplicateNever(message_id, seen) == FALSE

\* message_id and message_id in mensagens_processadas
Duplicate(message_id, seen) == PyTruthy(message_id) /\ message_id \in seen

\* eh_msg_cliente = (msg_type == 0 or msg_type == "incoming")
EhMsgCliente(msg_type) ==
    \/ msg_type.t \in {"int", "bool"} /\ msg_type.i = 0
    \/ msg_type.t = "str" /\ msg_type.s = S_incoming

IsPublicFlagFalsy(is_private) == ~PyTruthy(is_private)

\* is_private is False
IsPublicFlag(is_private) == is_private.t = "bool" /\ is_private.i = 0

\* chatwoot_webhook(request, background_tasks) for the payload data, with cfg
\* what load_settings() returns, seen the set mensagens_processadas, (dia,
\* hora) the clock and post_result what requests.post does ("raises", or the
\* status code).
ChatwootWebhook(data, cfg, seen, dia, hora, post_result) ==
    IF ~data.json_ok THEN Outcome("error", AckOk, seen, NoTask, NoPost)
    ELSE IF data.event # "message_created"
    THEN Outcome("event", AckOk, seen, NoTask, NoPost)
    ELSE IF ConfigOff(cfg) THEN Outcome("config", AckOk, seen, NoTask, NoPost)
    ELSE IF CredentialsMissing(cfg) THEN Outcome("credentials", AckOk, seen, NoTask, NoPost)
    ELSE
    LET f == PayloadFields(data)
        seen_now == IF PyTruthy(f.message_id) THEN seen \cup {f.message_id} ELSE seen
        mensagem_cliente == IF PyTruthy(f.content) THEN f.content.s ELSE <<>>
        audio_detectado == \E i \in 1 .. Len(f.attachments) : IsAudioAttachment(f.attachments[i])
    IN  IF InboxRejects(f.inbox_id) THEN Outcome("inbox", AckOk, seen, NoTask, NoPost)
        ELSE IF Duplicate(f.message_id, seen)
        THEN Outcome("duplicate", AckOk, seen, NoTask, NoPost)
        ELSE IF ~(EhMsgCliente(f.msg_type) /\ IsPublicFlag(f.is_private)
                  /\ PyTruthy(f.conversation_id))
        THEN Outcome("criteria", AckOk, seen_now, NoTask, NoPost)
        ELSE IF audio_detectado /\ mensagem_cliente = <<>>
        THEN IF post_result = "raises"
             THEN Outcome("audio_error", AckOk, seen_now, NoTask, NoPost)
             ELSE Outcome("audio", AckNull, seen_now, NoTask,
                          Post(f.conversation_id, "aviso de audio", post_result))
        ELSE IF mensagem_cliente = <<>>
        THEN Outcome("empty", AckNull, seen_now, NoTask, NoPost)
        ELSE IF ForaDoHorarioComercial(cfg, dia, hora)
        THEN Outcome("enqueued", AckOk, seen_now,
                     Task(f.conversation_id, ExtrairPrimeiroNome(data), mensagem_cliente,
                          f.inbox_id),
                     NoPost)
        ELSE Outcome("hours", AckOk, seen_now, NoTask, NoPost)

\* `from datetime import timedelta, timezone` (engine.py line 3): the name
\* datetime that log_conversation uses at line 355 is not bound in the module.
DatetimeIsBound == FALSE

\* log_conversation(conversation_id, client_name, direction, message, ...):
\* ts = datetime.now(TZ).isoformat() raises NameError before the INSERT.
LogConversation(log, conversation_id, direction, message) ==
    IF DatetimeIsBound
    THEN [raised |-> FALSE,
          log |-> Append(log, [conversation_id |-> conversation_id,
                               direction |-> direction, message |-> message])]
    ELSE [raised |-> TRUE, log |-> log]

\* custom_moderation_hit(texto, termos)[0]
CustomModerationHit(texto, termos) ==
    /\ texto # <<>>
    /\ \E i \in 1 .. Len(termos) :
          /\ LowerStr(Strip(termos[i])) # <<>>
          /\ Contains(LowerStr(texto), LowerStr(Strip(termos[i])))

\* The history gets the customer message as soon as it is looked up.
SetDefaultAndAppend(hist, conversation_id) ==
    [c \in DOMAIN hist \cup {conversation_id} |->
        IF c # conversation_id THEN hist[c]
        ELSE Append(IF c \in DOMAIN hist THEN hist[c]
                    ELSE <<[role |-> "system", content |-> "system_prompt"]>>,
                    [role |-> "user", content |-> "mensagem"])]

\* historico_conversas.setdefault(conversation_id, [system message])
SetDefault(hist, conversation_id) ==
    IF conversation_id \in DOMAIN hist THEN hist
    ELSE [c \in DOMAIN hist \cup {conversation_id} |->
             IF c = conversation_id THEN <<[role |-> "system", content |-> "system_prompt"]>>
             ELSE hist[c]]

Done(how, hist, log, calls, posts) ==
    [how |-> how, historico |-> hist, logged |-> log, llm_calls |-> calls, posted |-> posts]

\* responder_cliente(conversation_id, primeiro_nome, user_message, inbox_id),
\* with cfg what load_settings() returns and env what the outside answers:
\* env.conv the GET of the conversation ("raises", a non-200 code, or the
\* status of the conversation), env.moderation the moderation API ("flagged",
\* "clean", "error"), env.llm the model ("text", "empty", "raises"), env.post
\* the POST of the reply ("raises" or the status code).
ResponderCliente(task, cfg, hist, log, calls, posts, env) ==
    IF cfg = NoConfig THEN Done("no_config", hist, log, calls, posts)
    ELSE IF ~cfg.bot_enabled THEN Done("disabled", hist, log, calls, posts)
    ELSE IF cfg.provider # "openai" THEN Done("provider", hist, log, calls, posts)
    ELSE IF cfg.openai_api_key = "" THEN Done("no_api_key", hist, log, calls, posts)
    ELSE IF CredentialsMissing(cfg) THEN Done("credentials", hist, log, calls, posts)
    ELSE IF env.conv \in {"resolved", "snoozed"} THEN Done("blocked", hist, log, calls, posts)
    ELSE
    LET hist1 == SetDefault(hist, task.conversation_id)
        mensagem_cliente == [name |-> task.primeiro_nome, message |-> task.user_message]
        flagged == /\ cfg.moderation_enabled
                   /\ \/ CustomModerationHit(task.user_message, cfg.custom_terms)
                      \/ env.moderation = "flagged"
        log1 == LogConversation(log, task.conversation_id, "user", mensagem_cliente)
    IN  IF log1.raised THEN Done("error", hist1, log1.log, calls, posts)
        ELSE IF flagged
        THEN LET log2 == LogConversation(log1.log, task.conversation_id, "assistant", "aviso")
             IN  IF log2.raised \/ env.post = "raises"
                 THEN Done("error", hist1, log2.log, calls, posts)
                 ELSE Done("moderated", hist1, log2.log, calls,
                           Append(posts, Post(task.conversation_id, "aviso de moderacao",
                                              env.post)))
        ELSE
        LET with_user == Append(hist1[task.conversation_id],
                                [role |-> "user", content |-> mensagem_cliente])
            hist2 == [hist1 EXCEPT ![task.conversation_id] = with_user]
            calls1 == Append(calls, with_user)
        IN  IF env.llm = "raises" THEN Done("error", hist2, log1.log, calls1, posts)
            ELSE IF env.llm = "empty" THEN Done("no_answer", hist2, log1.log, calls1, posts)
            ELSE
            LET hist3 == [hist2 EXCEPT ![task.conversation_id] =
                             Append(with_user, [role |-> "assistant", content |-> "resposta"])]
                log3 == LogConversation(log1.log, task.conversation_id, "assistant", "resposta")
            IN  IF log3.raised \/ env.post = "raises"
                THEN Done("error", hist3, log3.log, calls1, posts)
                ELSE Done("answered", hist3, log3.log, calls1,
                          Append(posts, Post(task.conversation_id, "resposta", env.post)))

MaxDeliveries == 2

\* The runs of the prompts tab in one session.
MaxPromptOps == 4

\* One request to POST /webhook, handled from the first line to the return.
Webhook(data, dia, hora, post_result) ==
    /\ Len(deliveries) < MaxDeliveries
    /\ LET o == ChatwootWebhook(data, config, mensagens_processadas, dia, hora, post_result) IN
          /\ mensagens_processadas' = o.seen
          /\ tasks' = IF o.task # NoTask THEN Append(tasks, o.task) ELSE tasks
          /\ posted' = IF o.post # NoPost THEN Append(posted, o.post) ELSE posted
          /\ request' = [data |-> data, dia |-> dia, hora |-> hora,
                          stage |-> o.stage, ack |-> o.ack, task |-> o.task, post |-> o.post]
          /\ deliveries' = Append(deliveries,
                [message_id |-> IF data.json_ok THEN PayloadFields(data).message_id ELSE VNone,
                 stage |-> o.stage, ack |-> o.ack,
                 replied |-> o.task # NoTask \/ o.post # NoPost])
    /\ UNCHANGED <<fetchVars, aggVars, sampleVars, tabVars, adminVars, config, historico_conversas, logged,
                   llm_calls, task_done>>

\* The background task at the head of the queue runs: responder_cliente from
\* the first line to the return.
RunTask(env) ==
    /\ tasks # <<>>
    /\ LET r == ResponderCliente(Head(tasks), config, historico_conversas, logged,
                                 llm_calls, posted, env) IN
          /\ historico_conversas' = r.historico
          /\ logged' = r.logged
          /\ llm_calls' = r.llm_calls
          /\ posted' = r.posted
          /\ task_done' = [task |-> Head(tasks), env |-> env, how |-> r.how,
                            logs |-> SubSeq(r.logged, Len(logged) + 1, Len(r.logged)),
                            calls |-> SubSeq(r.llm_calls, Len(llm_calls) + 1, Len(r.llm_calls)),
                            posts |-> SubSeq(r.posted, Len(posted) + 1, Len(r.posted))]
    /\ tasks' = Tail(tasks)
    /\ UNCHANGED <<fetchVars, aggVars, sampleVars, tabVars, adminVars, config, mensagens_processadas, request,
                   deliveries>>

Attachment(file_type, data_url) ==
    [file_type |-> file_type, content_type |-> <<>>, data_url |-> data_url, url |-> <<>>]

NoNested ==
    [content |-> VNone, message_type |-> VNone, private |-> VNone, attachments |-> <<>>,
     id |-> VNone, message_id |-> VNone, conversation_id |-> VNone, inbox_id |-> VNone]

\* An incoming public text message of conversation 7 in the allowed inbox.
BasePayload ==
    [json_ok |-> TRUE, event |-> "message_created", content |-> VStr(<<"o", "i">>),
     message_type |-> VInt(0), private |-> VBool(FALSE), attachments |-> <<>>,
     id |-> VInt(5), message_id |-> VNone,
     conversation |-> [id |-> VInt(7), inbox_id |-> VInt(88473)],
     nested |-> NoNested, sender_name |-> <<"a", "n", "a", " ", "m">>]

\* The payloads sent: the base one, and the base one changed in one place (or
\* two, for the audio-only message and the nested shape).
Payloads ==
    { BasePayload,
      [BasePayload EXCEPT !.json_ok = FALSE],
      [BasePayload EXCEPT !.event = "conversation_updated"],
      [BasePayload EXCEPT !.content = VNone],
      [BasePayload EXCEPT !.content = VStr(<<>>), !.id = VInt(6)],
      [BasePayload EXCEPT !.message_type = VInt(1)],
      [BasePayload EXCEPT !.message_type = VStr(S_incoming), !.id = VInt(6)],
      [BasePayload EXCEPT !.message_type = VStr(<<"I", "n", "c", "o", "m", "i", "n", "g">>)],
      [BasePayload EXCEPT !.message_type = VNone],
      [BasePayload EXCEPT !.private = VBool(TRUE)],
      [BasePayload EXCEPT !.private = VNone],
      [BasePayload EXCEPT !.private = VInt(0)],
      [BasePayload EXCEPT !.attachments = <<Attachment(<<"A", "u", "d", "i", "o">>, <<>>)>>,
                          !.content = VNone],
      [BasePayload EXCEPT !.attachments = <<Attachment(<<>>, <<"a", ".", "M", "P", "3">>)>>,
                          !.content = VStr(<<>>), !.id = VInt(6)],
      [BasePayload EXCEPT !.attachments = <<Attachment(<<"a", "u", "d", "i", "o">>, <<>>)>>],
      [BasePayload EXCEPT !.attachments = <<Attachment(<<"i", "m", "g">>, <<"a", ".", "p", "n", "g">>)>>,
                          !.content = VNone],
      [BasePayload EXCEPT !.id = VNone, !.message_id = VInt(5)],
      [BasePayload EXCEPT !.id = VInt(0)],
      [BasePayload EXCEPT !.id = VNone],
      [BasePayload EXCEPT !.conversation = [id |-> VInt(7), inbox_id |-> VNone]],
      [BasePayload EXCEPT !.conversation = [id |-> VInt(7), inbox_id |-> VInt(5)]],
      [BasePayload EXCEPT !.conversation = [id |-> VInt(7), inbox_id |-> VStr(ALLOWED_INBOX_ID)]],
      [BasePayload EXCEPT !.conversation = [id |-> VInt(7), inbox_id |-> VInt(5)], !.id = VInt(6)],
      [BasePayload EXCEPT !.conversation = [id |-> VNone, inbox_id |-> VInt(88473)]],
      [BasePayload EXCEPT !.conversation = [id |-> VNone, inbox_id |-> VNone],
                          !.content = VNone, !.message_type = VNone, !.private = VNone,
                          !.id = VNone,
                          !.nested = [NoNested EXCEPT !.content = VStr(<<"o", "l", "a">>),
                                                      !.message_type = VStr(S_incoming),
                                                      !.private = VBool(FALSE),
                                                      !.id = VInt(5),
                                                      !.conversation_id = VInt(7),
                                                      !.inbox_id = VInt(88473)]],
      [BasePayload EXCEPT !.sender_name = <<>>] }

\* The settings saved from the panel, with the OPENAI_API_KEY of the environment.
BaseConfig ==
    [bot_enabled |-> TRUE, provider |-> "openai", openai_api_key |-> "sk",
     chatwoot_url |-> "url", chatwoot_api_token |-> "token", chatwoot_account_id |-> "1",
     schedule |-> [d \in {} |-> [enabled |-> FALSE, start |-> 8, end |-> 18]],
     moderation_enabled |-> FALSE, custom_terms |-> <<>>]

Configs ==
    { NoConfig, BaseConfig,
      [BaseConfig EXCEPT !.bot_enabled = FALSE],
      [BaseConfig EXCEPT !.chatwoot_api_token = ""],
      [BaseConfig EXCEPT !.provider = "other"],
      [BaseConfig EXCEPT !.openai_api_key = ""],
      [BaseConfig EXCEPT !.schedule = [d \in {5} |-> [enabled |-> TRUE, start |-> 9, end |-> 12]]],
      [BaseConfig EXCEPT !.moderation_enabled = TRUE, !.custom_terms = <<<<" ", "O", "I", " ">>>>],
      [BaseConfig EXCEPT !.moderation_enabled = TRUE] }

\* Monday 7h, Monday 10h, Saturday 10h.
Clocks == {[dia |-> 0, hora |-> 7], [dia |-> 0, hora |-> 10], [dia |-> 5, hora |-> 10]}

\* What the outside answers to one run of responder_cliente: all well, and
\* one thing different at a time.
GoodEnv == [conv |-> "open", moderation |-> "clean", llm |-> "text", post |-> "200"]

Environments ==
    { GoodEnv,
      [GoodEnv EXCEPT !.conv = "pending"], [GoodEnv EXCEPT !.conv = "resolved"],
      [GoodEnv EXCEPT !.conv = "raises"], [GoodEnv EXCEPT !.moderation = "flagged"],
      [GoodEnv EXCEPT !.llm = "empty"], [GoodEnv EXCEPT !.post = "500"] }

InitBot ==
    /\ FetchIdle /\ AggIdle /\ SampleIdle /\ TabIdle /\ AdminIdle /\ BotStart
    /\ config \in Configs

NextBot ==
    \/ \E data \in Payloads, clock \in Clocks, post_result \in {"200", "500", "raises"} :
          /\ post_result = "200" \/ data.attachments # <<>>
          /\ Webhook(data, clock.dia, clock.hora, post_result)
    \/ \E env \in Environments : RunTask(env)

SpecBot == InitBot /\ [][NextBot]_vars


\* Runs of the pool: 1, 2, 4 or 7 conversations of the range, so that the pool
\* has fewer workers than 3, fewer calls than one batch, and a second batch;
\* each fetch returns one bot message, or the fetches of some ids raise.
PoolConversations(k) ==
    [i \in 1..k |-> Conv(i, i, 1, S_Ana, S_5511, 4, "open", 1, TsInt(2))]

InitPool ==
    /\ FetchIdle /\ ExtIdle /\ AggStart
    /\ mode = "analysis" /\ filters = BaseFilters
    /\ \E k \in {1, 2, 4, 7} : conversations = PoolConversations(k)
    /\ \E failing \in {{}, {2, 7}, 1..7} :
          remote = [id \in 1..7 |-> IF id \in failing THEN FetchFails ELSE Fetched(OnlyBot)]

SpecPool == InitPool /\ [][NextAgg]_vars

\* Runs of the two tabs: the three conversations, fetches that return.
InitTabs ==
    /\ FetchIdle /\ ExtIdle /\ AggStart
    /\ mode \in {"conversations", "analysis"}
    /\ filters = BaseFilters
    /\ conversations = AggConversations
    /\ remote = [id \in {10, 2, 3} |-> IF id = 10 THEN Fetched(BotAndUser)
                                       ELSE IF id = 2 THEN Fetched(OnlyBot) ELSE FetchFails]

SpecTabs == InitTabs /\ [][NextTabs]_vars

(***************************************************************************)
(* The insight-prompts management tab: management/insights_prompts.py      *)
(***************************************************************************)
\* A row of insight_prompts.
PromptRow(id, name, description, prompt_text) ==
    [id |-> id, name |-> name, description |-> description, prompt_text |-> prompt_text]

\* _save_insight_prompt(name, description, prompt_text, prompt_id) with 0 for
\* None: the table, the sequence and the id returned.
SaveInsightPrompt(table, seq, name, description, prompt_text, prompt_id) ==
    IF prompt_id = 0
    THEN [table |-> table \cup {PromptRow(seq + 1, name, description, prompt_text)},
          seq |-> seq + 1, id |-> seq + 1]
    ELSE [table |-> {IF r.id = prompt_id
                     THEN PromptRow(r.id, name, description, prompt_text) ELSE r : r \in table},
          seq |-> seq, id |-> prompt_id]

\* A delete that empties the table.
DeleteEveryPrompt(table, prompt_id) == {}

\* _delete_insight_prompt(prompt_id)
DeleteInsightPrompt(table, prompt_id) ==
    IF prompt_id = 0 THEN table ELSE {r \in table : r.id # prompt_id}

\* The top of render_insights_prompts_tab: a selected id with no row is dropped.
SelectedAtRender(table, selected) ==
    IF selected \in {r.id : r \in table} THEN selected ELSE 0

\* The run of the tab, numbered.
PromptOp(op, selected, id, name, description, prompt_text) ==
    [n |-> prompt_op.n + 1, op |-> op, selected |-> selected, id |-> id, name |-> name,
     description |-> description, prompt_text |-> prompt_text]

\* "Salvar" of the form with the three fields as entered.
SavePrompt(name_input, description_input, prompt_text_input) ==
    LET selected_id == SelectedAtRender(insight_prompts, insight_prompt_selected_id)
        saved == SaveInsightPrompt(insight_prompts, prompt_seq, Strip(name_input),
                                   Strip(description_input), Strip(prompt_text_input),
                                   selected_id)
    IN  /\ prompt_op.n < MaxPromptOps
        /\ prompt_op' = PromptOp("save", selected_id, 0, name_input, description_input,
                                 prompt_text_input)
        /\ IF Strip(name_input) = <<>> \/ Strip(prompt_text_input) = <<>>
           THEN /\ insight_prompt_selected_id' = selected_id
                /\ UNCHANGED <<insight_prompts, prompt_seq>>
           ELSE /\ insight_prompts' = saved.table
                /\ prompt_seq' = saved.seq
                /\ insight_prompt_selected_id' = saved.id
        /\ UNCHANGED baseVars

\* "Excluir" of the form: disabled while nothing is selected.
DeleteSelectedPrompt ==
    LET selected_id == SelectedAtRender(insight_prompts, insight_prompt_selected_id) IN
    /\ prompt_op.n < MaxPromptOps
    /\ selected_id # 0
    /\ prompt_op' = PromptOp("delete", selected_id, selected_id, <<>>, <<>>, <<>>)
    /\ insight_prompts' = DeleteInsightPrompt(insight_prompts, selected_id)
    /\ insight_prompt_selected_id' = 0
    /\ UNCHANGED <<baseVars, prompt_seq>>

\* "Excluir" in the row of prompt id of the list.
DeleteListedPrompt(id) ==
    LET selected_id == SelectedAtRender(insight_prompts, insight_prompt_selected_id) IN
    /\ prompt_op.n < MaxPromptOps
    /\ id \in {r.id : r \in insight_prompts}
    /\ prompt_op' = PromptOp("delete", selected_id, id, <<>>, <<>>, <<>>)
    /\ insight_prompts' = DeleteInsightPrompt(insight_prompts, id)
    /\ insight_prompt_selected_id' = IF selected_id = id THEN 0 ELSE selected_id
    /\ UNCHANGED <<baseVars, prompt_seq>>

\* "Editar" in the row of prompt id of the list.
EditPrompt(id) ==
    /\ prompt_op.n < MaxPromptOps
    /\ id \in {r.id : r \in insight_prompts}
    /\ prompt_op' = PromptOp("edit", SelectedAtRender(insight_prompts, insight_prompt_selected_id),
                             id, <<>>, <<>>, <<>>)
    /\ insight_prompt_selected_id' = id
    /\ UNCHANGED <<baseVars, insight_prompts, prompt_seq>>

\* "Novo prompt".
NewPrompt ==
    /\ prompt_op.n < MaxPromptOps
    /\ prompt_op' = PromptOp("new", SelectedAtRender(insight_prompts, insight_prompt_selected_id),
                             0, <<>>, <<>>, <<>>)
    /\ insight_prompt_selected_id' = 0
    /\ UNCHANGED <<baseVars, insight_prompts, prompt_seq>>

\* Another session of the dashboard deletes prompt id.
OtherSessionDeletes(id) ==
    /\ prompt_op.n < MaxPromptOps
    /\ id \in {r.id : r \in insight_prompts}
    /\ prompt_op' = [prompt_op EXCEPT !.n = @ + 1, !.op = "other"]
    /\ insight_prompts' = DeleteInsightPrompt(insight_prompts, id)
    /\ UNCHANGED <<baseVars, prompt_seq, insight_prompt_selected_id>>

\* What the user may type in the fields.
NameInputs == {<<>>, <<" ">>, <<" ", "a", " ">>, <<"b">>}
DescriptionInputs == {<<>>, <<"d", " ">>}
PromptTextInputs == {<<>>, <<"t">>, <<" ", "u">>}

NextPrompts ==
    \/ \E name_input \in NameInputs, description_input \in DescriptionInputs,
          prompt_text_input \in PromptTextInputs :
             SavePrompt(name_input, description_input, prompt_text_input)
    \/ DeleteSelectedPrompt
    \/ \E id \in 1 .. MaxPromptOps : DeleteListedPrompt(id)
    \/ \E id \in 1 .. MaxPromptOps : EditPrompt(id)
    \/ NewPrompt
    \/ \E id \in 1 .. MaxPromptOps : OtherSessionDeletes(id)

InitPrompts == FetchIdle /\ AggIdle /\ ExtIdle

SpecPrompts == InitPrompts /\ [][NextPrompts]_vars

(***************************************************************************)
(* The settings row (src/bot/engine.py), the sidebar bootstrap             *)
(* (app/components/sidebar.py) and the activation buttons of Bot Studio    *)
(* (app/modules/bot/studio.py)                                             *)
(*                                                                         *)
(* A cell of the row is NULL, a text or an integer.  The JSON columns hold *)
(* JSON texts; what json.loads gives for them is a value with a type tag,  *)
(* the items of a list or the keys of a dict written as texts.             *)
(***************************************************************************)
MaxSettingsOps == 6

SqlNull == [null |-> TRUE, text |-> "", int |-> 0]
SqlText(s) == [null |-> FALSE, text |-> s, int |-> 0]
SqlInt(n) == [null |-> FALSE, text |-> "", int |-> n]

\* Python's truth value of a cell: None, "" and 0 are false.
CellTruthy(cell) == ~cell.null /\ (cell.text # "" \/ cell.int # 0)

JNone == [t |-> "none", items |-> <<>>]
JList(items) == [t |-> "list", items |-> items]
JDict(keys) == [t |-> "dict", items |-> keys]

\* def_sched of set_bot_enabled: the seven days.
def_sched == JDict(<<"0", "1", "2", "3", "4", "5", "6">>)

\* json.loads over the texts the rows below hold.
json_loads(text) ==
    CASE text = "null" -> JNone
      [] text = "[]" -> JList(<<>>)
      [] text = "[0,1]" -> JList(<<"0", "1">>)
      [] text = "[0, 1]" -> JList(<<"0", "1">>)
      [] text = "[0, 1, 2, 3, 4]" -> JList(<<"0", "1", "2", "3", "4">>)
      [] text = "{}" -> JDict(<<>>)
      [] text = "{ \"groq\": {} }" -> JDict(<<"groq">>)
      [] text = "{\"groq\": {}}" -> JDict(<<"groq">>)
      [] text = "{\"0\": {}, \"1\": {}, \"2\": {}, \"3\": {}, \"4\": {}, \"5\": {}, \"6\": {}}" -> def_sched

\* json.dumps: the one text the encoder writes for a value.
json_dumps(value) ==
    CASE value = JNone -> "null"
      [] value = JList(<<>>) -> "[]"
      [] value = JList(<<"0", "1">>) -> "[0, 1]"
      [] value = JList(<<"0", "1", "2", "3", "4">>) -> "[0, 1, 2, 3, 4]"
      [] value = JDict(<<>>) -> "{}"
      [] value = JDict(<<"groq">>) -> "{\"groq\": {}}"
      [] value = def_sched -> "{\"0\": {}, \"1\": {}, \"2\": {}, \"3\": {}, \"4\": {}, \"5\": {}, \"6\": {}}"

\* load_settings(): None without a row, else the dict built from the row.
load_settings(row) ==
    IF row = NoSettings THEN NoSettings
    ELSE [system_prompt |-> row.system_prompt,
          provider |-> row.provider,
          model |-> row.model,
          vector_store_id |-> row.vector_store_id,
          chatwoot_url |-> row.chatwoot_url,
          chatwoot_api_token |-> row.chatwoot_api_token,
          chatwoot_account_id |-> row.chatwoot_account_id,
          horario_inicio |-> row.horario_inicio,
          horario_fim |-> row.horario_fim,
          dias_funcionamento |->
              IF CellTruthy(row.dias_funcionamento) THEN json_loads(row.dias_funcionamento.text)
              ELSE JList(<<"0", "1", "2", "3", "4">>),
          bot_enabled |-> CellTruthy(row.bot_enabled),
          schedule |->
              IF CellTruthy(row.schedule_json) THEN json_loads(row.schedule_json.text) ELSE JNone,
          providers |->
              IF CellTruthy(row.providers_json) THEN json_loads(row.providers_json.text)
              ELSE JDict(<<>>),
          prompt_blocks |->
              IF CellTruthy(row.prompt_blocks_json) THEN json_loads(row.prompt_blocks_json.text)
              ELSE JDict(<<>>),
          prompt_profile_id |-> row.prompt_profile_id,
          moderation_enabled |-> CellTruthy(row.moderation_enabled),
          custom_moderation_terms |->
              IF CellTruthy(row.custom_moderation_terms) THEN row.custom_moderation_terms
              ELSE SqlText("")]

\* save_settings(data): the row the INSERT ... ON CONFLICT DO UPDATE leaves.
save_settings(data) ==
    [system_prompt |-> data.system_prompt,
     provider |-> data.provider,
     model |-> data.model,
     vector_store_id |-> data.vector_store_id,
     chatwoot_url |-> data.chatwoot_url,
     chatwoot_api_token |-> data.chatwoot_api_token,
     chatwoot_account_id |-> data.chatwoot_account_id,
     horario_inicio |-> data.horario_inicio,
     horario_fim |-> data.horario_fim,
     dias_funcionamento |-> SqlText(json_dumps(data.dias_funcionamento)),
     bot_enabled |-> SqlInt(IF data.bot_enabled THEN 1 ELSE 0),
     schedule_json |-> SqlText(json_dumps(data.schedule)),
     providers_json |-> SqlText(json_dumps(data.providers)),
     prompt_blocks_json |-> SqlText(json_dumps(data.prompt_blocks)),
     prompt_profile_id |-> data.prompt_profile_id,
     moderation_enabled |-> SqlInt(IF data.moderation_enabled THEN 1 ELSE 0),
     custom_moderation_terms |-> data.custom_moderation_terms]

\* current.get(key, default) over `load_settings() or {}`.
Get(current, key, default) == IF key \in DOMAIN current THEN current[key] ELSE default

\* set_bot_enabled that writes its defaults over the row
set_bot_enabled_defaults(row, enabled) ==
    save_settings(
        [system_prompt |-> SqlText(""), provider |-> SqlText("openai"),
         model |-> SqlText("gpt-4.1-mini"), vector_store_id |-> SqlText(""),
         chatwoot_url |-> SqlText(""), chatwoot_api_token |-> SqlText(""),
         chatwoot_account_id |-> SqlText(""), horario_inicio |-> SqlInt(8),
         horario_fim |-> SqlInt(18), dias_funcionamento |-> JList(<<"0", "1", "2", "3", "4">>),
         bot_enabled |-> enabled, schedule |-> def_sched, providers |-> JDict(<<>>),
         prompt_blocks |-> JDict(<<>>), prompt_profile_id |-> SqlNull,
         moderation_enabled |-> FALSE, custom_moderation_terms |-> SqlText("")])

\* set_bot_enabled(enabled): the row it leaves where it found row.
set_bot_enabled(row, enabled) ==
    LET current == load_settings(row) IN
    save_settings(
        [system_prompt |-> Get(current, "system_prompt", SqlText("")),
         provider |-> Get(current, "provider", SqlText("openai")),
         model |-> Get(current, "model", SqlText("gpt-4.1-mini")),
         vector_store_id |-> Get(current, "vector_store_id", SqlText("")),
         chatwoot_url |-> Get(current, "chatwoot_url", SqlText("")),
         chatwoot_api_token |-> Get(current, "chatwoot_api_token", SqlText("")),
         chatwoot_account_id |-> Get(current, "chatwoot_account_id", SqlText("")),
         horario_inicio |-> Get(current, "horario_inicio", SqlInt(8)),
         horario_fim |-> Get(current, "horario_fim", SqlInt(18)),
         dias_funcionamento |->
             Get(current, "dias_funcionamento", JList(<<"0", "1", "2", "3", "4">>)),
         bot_enabled |-> enabled,
         schedule |-> Get(current, "schedule", def_sched),
         providers |-> Get(current, "providers", JDict(<<>>)),
         prompt_blocks |-> Get(current, "prompt_blocks", JDict(<<>>)),
         prompt_profile_id |-> Get(current, "prompt_profile_id", SqlNull),
         moderation_enabled |-> Get(current, "moderation_enabled", FALSE),
         custom_moderation_terms |-> Get(current, "custom_moderation_terms", SqlText(""))])

\* pkill that stops nothing
PkillMissing(installed, running) == running

\* pkill -f "uvicorn app.modules.bot.bot_start:app": whether the server still runs.
Pkill(installed, running) == IF installed THEN FALSE ELSE running

\* _is_webhook_running(): what pgrep finds.
IsWebhookRunning == procps /\ webhook

SettingsOp(op, called, enabled) ==
    [n |-> settings_op.n + 1, op |-> op, called |-> called, enabled |-> enabled]

\* render_sidebar(): _bootstrap_bot_state() and the navigation, which writes nothing.
RenderSidebar ==
    /\ settings_op.n < MaxSettingsOps
    /\ IF BOOTSTRAPPED
       THEN /\ settings_op' = SettingsOp("render_sidebar", FALSE, FALSE)
            /\ UNCHANGED <<settings, BOOTSTRAPPED, webhook>>
       ELSE /\ settings_op' = SettingsOp("render_sidebar", TRUE, FALSE)
            /\ settings' = set_bot_enabled(settings, FALSE)
            /\ webhook' = Pkill(procps, webhook)
            /\ BOOTSTRAPPED' = TRUE
    /\ UNCHANGED <<pageVars, promptVars, insightsVars, procps>>

\* "Ativar bot" of _render_activation: disabled while the bot is enabled.
AtivarBot ==
    LET current == load_settings(settings) IN
    /\ settings_op.n < MaxSettingsOps
    /\ BOOTSTRAPPED
    /\ ~Get(current, "bot_enabled", TRUE)
    /\ settings_op' = SettingsOp("ativar", TRUE, TRUE)
    /\ settings' = set_bot_enabled(settings, TRUE)
    /\ webhook' = IF IsWebhookRunning THEN webhook ELSE TRUE
    /\ UNCHANGED <<pageVars, promptVars, insightsVars, BOOTSTRAPPED, procps>>

\* "Desativar bot" of _render_activation: disabled while the bot is disabled.
DesativarBot ==
    LET current == load_settings(settings) IN
    /\ settings_op.n < MaxSettingsOps
    /\ BOOTSTRAPPED
    /\ Get(current, "bot_enabled", TRUE)
    /\ settings_op' = SettingsOp("desativar", TRUE, FALSE)
    /\ settings' = set_bot_enabled(settings, FALSE)
    /\ webhook' = IF IsWebhookRunning THEN Pkill(procps, webhook) ELSE webhook
    /\ UNCHANGED <<pageVars, promptVars, insightsVars, BOOTSTRAPPED, procps>>

NextSettings == RenderSidebar \/ AtivarBot \/ DesativarBot

\* Rows a database may hold when the dashboard process starts: one the settings page
\* saved, one of a database older than the added columns, one written by hand.
SavedRow ==
    [system_prompt |-> SqlText("Be brief."), provider |-> SqlText("groq"),
     model |-> SqlText("llama3"), vector_store_id |-> SqlText("vs_1"),
     chatwoot_url |-> SqlText("https://cw"), chatwoot_api_token |-> SqlText("tok"),
     chatwoot_account_id |-> SqlText("7"), horario_inicio |-> SqlInt(9),
     horario_fim |-> SqlInt(17), dias_funcionamento |-> SqlText("[0, 1]"),
     bot_enabled |-> SqlInt(1),
     schedule_json |-> SqlText("{\"0\": {}, \"1\": {}, \"2\": {}, \"3\": {}, \"4\": {}, \"5\": {}, \"6\": {}}"),
     providers_json |-> SqlText("{\"groq\": {}}"), prompt_blocks_json |-> SqlText("{}"),
     prompt_profile_id |-> SqlInt(3), moderation_enabled |-> SqlInt(1),
     custom_moderation_terms |-> SqlText("spam")]

LegacyRow ==
    [system_prompt |-> SqlNull, provider |-> SqlText("openai"),
     model |-> SqlText("gpt-4.1-mini"), vector_store_id |-> SqlNull,
     chatwoot_url |-> SqlText("https://cw"), chatwoot_api_token |-> SqlText("tok"),
     chatwoot_account_id |-> SqlText("7"), horario_inicio |-> SqlInt(8),
     horario_fim |-> SqlInt(18), dias_funcionamento |-> SqlNull,
     bot_enabled |-> SqlNull,
     schedule_json |-> SqlNull, providers_json |-> SqlNull, prompt_blocks_json |-> SqlNull,
     prompt_profile_id |-> SqlNull, moderation_enabled |-> SqlInt(0),
     custom_moderation_terms |-> SqlNull]

HandRow ==
    [SavedRow EXCEPT !.dias_funcionamento = SqlText("[0,1]"), !.bot_enabled = SqlInt(0),
                     !.schedule_json = SqlText("null"), !.providers_json = SqlText("{ \"groq\": {} }"),
                     !.prompt_blocks_json = SqlText(""), !.moderation_enabled = SqlInt(2),
                     !.custom_moderation_terms = SqlText("")]

SettingsRows == {NoSettings, SavedRow, LegacyRow, HandRow,
                 [LegacyRow EXCEPT !.bot_enabled = SqlInt(1)]}

InitSettings ==
    /\ FetchIdle /\ AggIdle /\ SampleIdle /\ BotIdle /\ TabIdle /\ PromptIdle /\ InsightsIdle
    /\ settings \in SettingsRows
    /\ BOOTSTRAPPED = FALSE
    /\ procps \in BOOLEAN
    /\ webhook \in BOOLEAN
    /\ settings_op = NoSettingsOp

SpecSettings == InitSettings /\ [][NextSettings]_vars

(***************************************************************************)
(* The insights tab (render_conversations_insights_tab): the filter        *)
(* signature, "Gerar insights", the confirmation "Sim" / "Não" and the     *)
(* call of the model.  A context is written as the pair of the filters and *)
(* the fetched data it was built from.                                     *)
(***************************************************************************)
MaxInsightsRuns == 5

\* prompt_options of the tab: "Selecione um prompt" and one label per row of the table.
PromptOptions(table) == {NoLabel} \cup {[id |-> r.id, name |-> r.name] : r \in table}

\* _get_insight_prompt(prompt_id): the row, or None.
GetInsightPrompt(table, prompt_id) ==
    IF prompt_id # 0 /\ \E r \in table : r.id = prompt_id
    THEN CHOOSE r \in table : r.id = prompt_id
    ELSE NoValue

\* _render_conversation_filters before its widgets: a prompt label that is no option
\* falls back to the first one, and the message statuses are normalised.
NormalizeWidgets(w, table) ==
    [w EXCEPT !.insight_prompt = IF @ \in PromptOptions(table) THEN @ ELSE NoLabel,
              !.message_statuses = NormalizeMessageStatuses(@, message_status_options)]

\* _render_conversation_filters after a set clear flag: the defaults.
ClearWidgets(w) == DefaultWidgets

\* The dict _render_conversation_filters returns.
RenderFilters(w) ==
    [start_date |-> w.start_date, end_date |-> w.end_date, contact_name |-> <<>>,
     contact_number |-> <<>>, conversation_id_filter |-> <<>>,
     status_filter |-> w.status, assigned_filter |-> "Todos", selected_inbox_ids |-> {},
     selected_agent_id |-> IdNone, selected_team_id |-> IdNone,
     conversation_type |-> "Todos",
     message_statuses |-> IF w.message_statuses = {} THEN {"Todos"} ELSE w.message_statuses,
     selected_prompt_id |-> w.insight_prompt.id]

\* _insights_filters_signature(filters): the sorted tuples are written as sets.
InsightsFiltersSignature(f) ==
    [start_date |-> f.start_date, end_date |-> f.end_date,
     contact_name |-> StrOr(f.contact_name, <<>>),
     contact_number |-> StrOr(f.contact_number, <<>>),
     conversation_id_filter |-> StrOr(f.conversation_id_filter, <<>>),
     status_filter |-> f.status_filter, assigned_filter |-> f.assigned_filter,
     selected_inboxes |-> f.selected_inbox_ids,
     selected_agent_id |-> f.selected_agent_id, selected_team_id |-> f.selected_team_id,
     conversation_type |-> f.conversation_type, message_statuses |-> f.message_statuses,
     selected_prompt_id |-> f.selected_prompt_id]

\* a signature test that never fires
SignatureNeverChanged(last_sig, current_sig) == FALSE

\* `last_sig is not None and current_sig != last_sig`
SignatureChanged(last_sig, current_sig) == last_sig # NoValue /\ current_sig # last_sig

\* The keys popped on a changed signature; pending becomes False.
DiscardInsights(ss) ==
    [ss EXCEPT !.summary = NoValue, !.context = NoValue, !.output = NoValue,
               !.prompt_id = 0, !.pending = FALSE]

\* The signature block of the tab.
AfterSignature(ss, f) ==
    LET current_sig == InsightsFiltersSignature(f)
        kept == IF SignatureChanged(ss.last_signature, current_sig)
                THEN DiscardInsights(ss) ELSE ss
    IN  [kept EXCEPT !.last_signature = current_sig]

\* What _build_insights_context returns for the filters over the fetched data.
BuildInsightsContext(f, data) == [filters |-> [f EXCEPT !.selected_prompt_id = 0], data |-> data]

\* The end of a successful "Gerar insights".
StoreInsights(ss, f, data) ==
    [ss EXCEPT !.summary = BuildInsightsContext(f, data),
               !.context = BuildInsightsContext(f, data),
               !.prompt_id = f.selected_prompt_id,
               !.pending = TRUE,
               !.output = NoValue]

\* `st.session_state.get("conv_insights_context") or ""` without a stored context.
EmptyContext == [filters |-> NoValue, data |-> 0]

\* The tab needs the three helpdesk settings.
ChatwootConfigured ==
    LET current == load_settings(settings) IN
    /\ CellTruthy(Get(current, "chatwoot_url", SqlNull))
    /\ CellTruthy(Get(current, "chatwoot_api_token", SqlNull))
    /\ CellTruthy(Get(current, "chatwoot_account_id", SqlNull))

InsightsOp(op, generated) ==
    [n |-> insights_op.n + 1, op |-> op, generated |-> generated]

\* A run of the tab with no button pressed, after the user set one widget.
ChangeWidget(w) ==
    LET widgets == NormalizeWidgets(w, insight_prompts) IN
    /\ insights_op.n < MaxInsightsRuns
    /\ ChatwootConfigured
    /\ Cardinality({k \in DOMAIN w : w[k] # conv_insights_widgets[k]}) = 1
    /\ w.insight_prompt \in PromptOptions(insight_prompts)
    /\ conv_insights_widgets' = widgets
    /\ conv_insights' = AfterSignature(conv_insights, RenderFilters(widgets))
    /\ insights_op' = InsightsOp("change", insights_op.generated)
    /\ UNCHANGED <<pageVars, promptVars, settingsVars, insights_calls>>

\* "Gerar insights", enabled while a prompt is selected; the fetch raises or gives data.
GerarInsights(raises, data) ==
    LET widgets == NormalizeWidgets(conv_insights_widgets, insight_prompts)
        f == RenderFilters(widgets)
        ss == AfterSignature(conv_insights, f)
        returns == \/ PromptOptions(insight_prompts) = {NoLabel}
                   \/ f.selected_prompt_id = 0
                   \/ InvalidPeriod(f)
                   \/ GetInsightPrompt(insight_prompts, f.selected_prompt_id) = NoValue
                   \/ raises
    IN  /\ insights_op.n < MaxInsightsRuns
        /\ ChatwootConfigured
        /\ conv_insights_widgets.insight_prompt # NoLabel
        /\ conv_insights_widgets' = widgets
        /\ conv_insights' = IF returns THEN ss ELSE StoreInsights(ss, f, data)
        /\ insights_op' = InsightsOp(IF returns THEN "gerar_failed" ELSE "gerar",
                                     IF returns THEN insights_op.generated
                                     ELSE BuildInsightsContext(f, data))
        /\ UNCHANGED <<pageVars, promptVars, settingsVars, insights_calls>>

\* "Sim", shown after the summary while pending; _run_insights_prompt raises before
\* the call ("no_key"), raises after it ("raises") or returns the output ("ok").
Sim(llm) ==
    LET widgets == NormalizeWidgets(conv_insights_widgets, insight_prompts)
        f == RenderFilters(widgets)
        ss == AfterSignature(conv_insights, f)
        prompt_data == GetInsightPrompt(insight_prompts, ss.prompt_id)
        provider == Get(load_settings(settings), "provider", SqlText("openai"))
        runs == /\ ss.summary # NoValue /\ ss.pending
                /\ prompt_data # NoValue
                /\ provider = SqlText("openai")
        context_text == IF ss.context = NoValue THEN EmptyContext ELSE ss.context
    IN  /\ insights_op.n < MaxInsightsRuns
        /\ ChatwootConfigured
        /\ conv_insights.summary # NoValue /\ conv_insights.pending
        /\ conv_insights_widgets' = widgets
        /\ insights_calls' =
               IF runs /\ llm # "no_key"
               THEN Append(insights_calls,
                           [prompt_text |-> prompt_data.prompt_text, context |-> context_text,
                            signature |-> ss.last_signature])
               ELSE insights_calls
        /\ conv_insights' =
               IF runs /\ llm = "ok"
               THEN [ss EXCEPT !.output = [prompt_name |-> prompt_data.name], !.pending = FALSE]
               ELSE ss
        /\ insights_op' = InsightsOp("sim", insights_op.generated)
        /\ UNCHANGED <<pageVars, promptVars, settingsVars>>

\* "Não", shown beside "Sim": everything is dropped and the next run clears the filters.
Nao ==
    LET widgets == NormalizeWidgets(conv_insights_widgets, insight_prompts)
        ss == AfterSignature(conv_insights, RenderFilters(widgets))
        shown == ss.summary # NoValue /\ ss.pending
        cleared == NormalizeWidgets(ClearWidgets(widgets), insight_prompts)
        dropped == [DiscardInsights(ss) EXCEPT !.last_signature = NoValue]
    IN  /\ insights_op.n < MaxInsightsRuns
        /\ ChatwootConfigured
        /\ conv_insights.summary # NoValue /\ conv_insights.pending
        /\ conv_insights_widgets' = IF shown THEN cleared ELSE widgets
        /\ conv_insights' = IF shown THEN AfterSignature(dropped, RenderFilters(cleared)) ELSE ss
        /\ insights_op' = InsightsOp("nao", insights_op.generated)
        /\ UNCHANGED <<pageVars, promptVars, settingsVars, insights_calls>>

\* "Limpar": the next run puts the defaults in the widgets and drops the output.
Limpar ==
    LET cleared == NormalizeWidgets(ClearWidgets(conv_insights_widgets), insight_prompts) IN
    /\ insights_op.n < MaxInsightsRuns
    /\ ChatwootConfigured
    /\ conv_insights_widgets' = cleared
    /\ conv_insights' = AfterSignature([conv_insights EXCEPT !.output = NoValue],
                                       RenderFilters(cleared))
    /\ insights_op' = InsightsOp("limpar", insights_op.generated)
    /\ UNCHANGED <<pageVars, promptVars, settingsVars, insights_calls>>

\* The management page of another session deletes prompt id.
PromptDeletedElsewhere(id) ==
    /\ insights_op.n < MaxInsightsRuns
    /\ id \in {r.id : r \in insight_prompts}
    /\ insight_prompts' = DeleteInsightPrompt(insight_prompts, id)
    /\ insights_op' = InsightsOp("elsewhere", insights_op.generated)
    /\ UNCHANGED <<pageVars, settingsVars, prompt_seq, insight_prompt_selected_id, prompt_op,
                   conv_insights_widgets, conv_insights, insights_calls>>

\* What the user may set the widgets to.
WidgetValues ==
    [start_date : {1, 2}, end_date : {1}, status : {"Todos", "open"},
     message_statuses : {{"Todos"}, {"sent"}},
     insight_prompt : {NoLabel, [id |-> 1, name |-> <<"a">>], [id |-> 2, name |-> <<"b">>]}]

NextInsights ==
    \/ \E w \in WidgetValues : ChangeWidget(w)
    \/ \E raises \in BOOLEAN, data \in {1, 2} : GerarInsights(raises, data)
    \/ \E llm \in {"no_key", "raises", "ok"} : Sim(llm)
    \/ Nao
    \/ Limpar
    \/ \E id \in {1, 2} : PromptDeletedElsewhere(id)

\* A session opens the tab over two saved prompts, with the provider openai or another.
InitInsights ==
    /\ FetchIdle /\ AggIdle /\ SampleIdle /\ BotIdle /\ TabIdle /\ InsightsIdle
    /\ insight_prompts = {PromptRow(1, <<"a">>, <<>>, <<"t">>), PromptRow(2, <<"b">>, <<>>, <<"u">>)}
    /\ prompt_seq = 2 /\ insight_prompt_selected_id = 0 /\ prompt_op = NoPromptOp
    /\ settings \in {SavedRow, [SavedRow EXCEPT !.provider = SqlText("openai")]}
    /\ BOOTSTRAPPED = TRUE /\ procps = TRUE /\ webhook = FALSE
    /\ settings_op = NoSettingsOp

SpecInsights == InitInsights /\ [][NextInsights]_vars

(***************************************************************************)
(* Claims about the fetchers                                               *)
(***************************************************************************)
\* The activity instant of a conversation record: the first of last_activity_at,
\* updated_at, created_at that is present and non-zero, parsed; NoTs if it does
\* not parse.
ActivityInstant(rec) ==
    LET raw == IF Truthy(rec.last_activity_at) THEN rec.last_activity_at
               ELSE IF Truthy(rec.updated_at) THEN rec.updated_at
               ELSE rec.created_at
    IN  IF raw.k \in {"int", "iso", "numstr"} THEN raw.v ELSE NoTs

PageStops ==
    /\ fpc = "handle" /\ fkind = "conversations" /\ resp.status < 400
    /\ \/ resp.payload.n = 0
       \/ /\ ActivityInstant(resp.payload.last) # NoTs
          /\ ActivityInstant(resp.payload.last) < fstart

\* C5: _fetch_conversations terminates after requesting at most max_pages pages,
\* and it returns right after the first empty page or the first page whose last
\* record has an activity instant older than start_dt, without asking for the
\* next page.
C5_Terminates ==
    /\ [](fkind = "conversations" /\ fpc \in {"rl", "handle"} => page <= max_pages)
    /\ [][PageStops => (fpc' = "done" /\ outcome' = "returned" /\ page' = page)]_vars
    /\ ((fkind = "conversations" /\ fpc \in {"rl", "handle"}) ~> (fpc = "done"))

\* A stale page k < max_pages has ended the fetch: page k + 1 was never requested.
C5_Witness ==
    /\ fpc = "done" /\ fkind = "conversations" /\ outcome = "returned"
    /\ page = 2 /\ page < max_pages /\ nitems = 4
    /\ resp.payload.n > 0 /\ ActivityInstant(resp.payload.last) < fstart
    /\ ActivityInstant(resp.payload.first) >= fstart

\* A pass of _request_with_rate_limit that got a 429 and slept on it.
SleptOn429 == fpc = "rl" /\ attempt' = attempt + 1

\* A pass of _request_with_rate_limit that got a response other than 429.
GotNon429 == fpc = "rl" /\ resp' # resp /\ resp'.status # 429

NumericRetryAfter(r) == r.status = 429 /\ r.retry_after.k = "seconds"

\* C6 as stated: after k <= rate_limit_retries 429 responses the first non-429
\* response is returned, and every delay slept is at least the one before it.
C6_Original ==
    [][ /\ GotNon429 => (fpc' = "handle" /\ attempt' = attempt)
        /\ (SleptOn429 /\ last_delay # NoTs) => last_delay' >= last_delay ]_vars

\* C6 amended: the first non-429 response is returned without another attempt; a
\* 429 without a numeric Retry-After header is slept on for base_delay * 2^attempt
\* plus a jitter of at most 0.3 s, one with such a header for the value of the
\* header plus jitter; the delays are non-decreasing from one 429 to the next
\* whenever neither of the two carried a numeric Retry-After.
C6_Backoff ==
    [][ /\ GotNon429 => (fpc' = "handle" /\ attempt' = attempt)
        /\ (SleptOn429 /\ ~NumericRetryAfter(resp'))
              => (last_delay' - base_delay_tenths * (2 ^ attempt)) \in 0 .. jitter_max_tenths
        /\ (SleptOn429 /\ NumericRetryAfter(resp'))
              => (last_delay' - resp'.retry_after.v) \in 0 .. jitter_max_tenths
        /\ (SleptOn429 /\ last_delay # NoTs /\ ~NumericRetryAfter(resp)
               /\ ~NumericRetryAfter(resp'))
              => last_delay' >= last_delay ]_vars

\* Three 429 responses without Retry-After, then a 200 that is returned.
C6_Witness ==
    /\ fpc = "handle" /\ resp.status = 200 /\ attempt = 3
    /\ last_delay >= base_delay_tenths * 4

\* C7: when every attempt is answered 429, _request_with_rate_limit makes exactly
\* rate_limit_retries + 1 attempts and returns the last 429 response, and both
\* fetchers raise RuntimeError on it, returning no list.
C7_Exhausted ==
    /\ [](fpc = "rl" => attempt <= rate_limit_retries + 1)
    /\ []((fpc = "handle" /\ resp.status = 429) => attempt = rate_limit_retries + 1)
    /\ [][(fpc = "rl" /\ attempt = rate_limit_retries + 1)
            => (fpc' = "handle" /\ resp' = resp /\ resp.status = 429)]_vars
    /\ [][(fpc = "handle" /\ resp.status = 429)
            => (fpc' = "done" /\ outcome' = "RuntimeError")]_vars

\* _fetch_messages has raised RuntimeError on the fourth 429 of its second batch.
C7_Witness ==
    /\ fpc = "done" /\ outcome = "RuntimeError" /\ resp.status = 429
    /\ attempt = rate_limit_retries + 1 /\ fkind = "messages" /\ nitems > 0

(***************************************************************************)
(* Claims about the conversation filter                                    *)
(***************************************************************************)
\* created_at parses and lies in [start_dt, end_dt]
CreatedInRange(c, f) ==
    LET created == ParseTs(c.created_at) IN
    created # NoTs /\ StartOfDay(f.start_date) <= created /\ created <= EndOfDay(f.end_date)

\* The conversations of the list whose created_at is unparseable or out of range.
OutOfRange == {c \in SeqToSet(conversations) : ~CreatedInRange(c, filters)}

\* The rows of the strict pass are still the ones _collect_conversation_rows
\* returned (the conversation-type filter of the last step has not cut them).
RowsAsCollected == apc \in {"wait", "msgs"} \/ (apc = "done" /\ filters.conversation_type = "Todos")

\* C1: of the two passes of _collect_conversation_rows over the same list and
\* filters, the conversation ids of the strict pass are a subset of those of the
\* relaxed pass, and the relaxed pass has beyond the strict one exactly the
\* conversations whose created_at is unparseable or outside [start_dt, end_dt] -
\* for the returned api ids and for the rows (conversation_id) alike.
C1_StrictSubsetOfRelaxed ==
    /\ apc # "idle" =>
        /\ SeqToSet(conv_api_ids) \subseteq SeqToSet(message_conv_ids)
        /\ SeqToSet(message_conv_ids) \ SeqToSet(conv_api_ids)
               = {c.id : c \in {x \in OutOfRange : x.id \in SeqToSet(message_conv_ids)}}
    /\ RowsAsCollected =>
        /\ SeqToSet(rows) \subseteq SeqToSet(message_scope_rows)
        /\ SeqToSet(message_scope_rows) \ SeqToSet(rows)
               = {ConvId(c) : c \in {x \in OutOfRange :
                                          ConvId(x) \in SeqToSet(message_scope_rows)}}

C1_Witness ==
    /\ apc = "wait" /\ filters.contact_name # <<>>
    /\ rows = <<10>> /\ message_scope_rows = <<10, 5>>
    /\ conv_api_ids = <<10>> /\ message_conv_ids = <<10, 5>>

\* The predicates of the filter other than the inbox one.
PassesAllButInbox(c, f) ==
    /\ ConvId(c) # IdNone
    /\ PassConversationId(c, f) /\ PassContact(c, f) /\ PassAssignee(c, f)
    /\ PassStatus(c, f) /\ PassTeam(c, f)

\* C10: with an empty selected-inbox set no conversation is rejected for its
\* inbox (every conversation the other predicates accept is in the relaxed rows);
\* with a message-status selection that is empty or contains "Todos" no message
\* is skipped for its status; and the status selection left in the session state
\* by _normalize_message_statuses is never empty.
C10_EmptyMeansNoRestriction ==
    /\ (apc # "idle" /\ filters.selected_inbox_ids = {}) =>
           \A c \in SeqToSet(conversations) :
               PassesAllButInbox(c, filters) => ConvId(c) \in SeqToSet(message_scope_rows)
    /\ (apc = "msgs" /\ cur.pos > 1
           /\ (filters.message_statuses = {} \/ "Todos" \in filters.message_statuses)) =>
           cur.verdict # "status"
    /\ \A i \in 1 .. Len(cur.msgs) : ~StatusRejects(cur.msgs[i], SelectedMessageStatuses({}))
    /\ session_statuses # {}

C10_Witness ==
    /\ apc = "msgs" /\ filters.selected_inbox_ids = {} /\ filters.contact_number # <<>>
    /\ message_scope_rows = <<2, 3>>
    /\ cur.pos = 4 /\ cur.verdict = "counted" /\ cur.msgs[3].status = PyNone
    /\ "Todos" \in filters.message_statuses /\ session_statuses = {"Todos"}

(***************************************************************************)
(* Claims about the message classifier and the counters                    *)
(***************************************************************************)
\* What the specification's sentence gives: 0, "0", "incoming" / 1, "1", "outgoing".
DirectionByLiteral(v) ==
    IF (v.t = "int" /\ v.i = 0) \/ (v.t = "str" /\ v.s \in {<<"0">>, S_incoming}) THEN "incoming"
    ELSE IF (v.t = "int" /\ v.i = 1) \/ (v.t = "str" /\ v.s \in {<<"1">>, S_outgoing}) THEN "outgoing"
    ELSE PyNone

\* The integer a message_type denotes: an int or bool by its value, a string of
\* decimal digits by its value; -1 when it denotes none.
TypeCode(v) ==
    IF v.t \in {"int", "bool"} THEN v.i
    ELSE IF v.t = "str" /\ v.s # <<>> /\ \A k \in 1 .. Len(v.s) : IsDigitChar(v.s[k])
    THEN IntOfStr(v.s)
    ELSE -1

DirectionIgnoringCase(v) ==
    IF TypeCode(v) = 0 \/ (v.t = "str" /\ LowerStr(v.s) = S_incoming) THEN "incoming"
    ELSE IF TypeCode(v) = 1 \/ (v.t = "str" /\ LowerStr(v.s) = S_outgoing) THEN "outgoing"
    ELSE PyNone

\* The message the last pass of `for msg in msgs` handled reached _message_direction.
DirectionTaken == apc = "msgs" /\ cur.pos > 1 /\ cur.verdict \in {"type", "counted"}

\* C8 as stated: incoming for 0, "0", "incoming"; outgoing for 1, "1", "outgoing";
\* unknown (None) for every other message_type.
C8_Original ==
    DirectionTaken => cur.direction = DirectionByLiteral(cur.msgs[cur.pos - 1].message_type)

\* C8: _message_direction gives incoming for the integer 0 (False included), for a
\* string of decimal digits of value 0 and for "incoming" in any letter case;
\* outgoing for 1 (True included), a digit string of value 1 and "outgoing" in any
\* letter case; None for every other message_type.
C8_DirectionIgnoringCase ==
    DirectionTaken => cur.direction = DirectionIgnoringCase(cur.msgs[cur.pos - 1].message_type)

C8_Witness ==
    /\ DirectionTaken /\ Len(cur.msgs) = 1
    /\ cur.msgs[1].message_type = VStr(<<"I","N","C","O","M","I","N","G">>)
    /\ cur.direction = "incoming" /\ cur.conv_received = 1

\* A pass of `for msg in msgs` that reached the counters.
CountedStep == apc = "msgs" /\ cur'.pos = cur.pos + 1 /\ cur'.verdict = "counted"

\* private is the boolean true or the string "true"
PrivateTrue(msg) ==
    (msg.private.t = "bool" /\ msg.private.i = 1) \/ msg.private = VStr(S_true)

\* C9: for a message that passes the date, status and type filters, conv_received
\* grows by one iff its direction is incoming (else stays), conv_sent grows by one
\* iff its direction is outgoing (else stays), and conv_priv grows by one when
\* private is true or "true", whatever the direction.
C9_Counters ==
    [][CountedStep =>
         LET msg == cur.msgs[cur.pos] IN
         /\ cur'.conv_received - cur.conv_received
                = IF MessageDirection(msg) = "incoming" THEN 1 ELSE 0
         /\ cur'.conv_sent - cur.conv_sent
                = IF MessageDirection(msg) = "outgoing" THEN 1 ELSE 0
         /\ PrivateTrue(msg) => cur'.conv_priv = cur.conv_priv + 1
         /\ cur'.conv_priv - cur.conv_priv \in {0, 1}]_vars

C9_Witness ==
    /\ apc = "msgs" /\ cur.pos = 2 /\ cur.verdict = "counted"
    /\ cur.msgs[1].private = VStr(S_true) /\ cur.direction = "outgoing"
    /\ cur.conv_priv = 1 /\ cur.conv_sent = 1 /\ cur.conv_received = 0

(***************************************************************************)
(* Claims about the aggregation                                            *)
(***************************************************************************)
\* The messages fetched for a conversation id that pass the date and status
\* filters and are outgoing.
SurvivingOutgoing(id) ==
    {msg \in SeqToSet(remote[id].msgs) :
        /\ ~DateRejects(msg, filters)
        /\ ~StatusRejects(msg, SelectedMessageStatuses(filters.message_statuses))
        /\ MessageDirection(msg) = "outgoing"}

\* C2: at the end of an aggregation with conversation type "Bot", a conversation
\* of the strict set is in the final rows (which total_conversas counts) iff one
\* of its outgoing messages that passed the date and status filters is
\* bot-classified; with "Agente", iff one of them is agent-classified.
C2_TypeGate ==
    apc = "done" =>
        /\ stats.total_conversas = Len(rows)
        /\ \A id \in SeqToSet(conv_api_ids) :
              /\ filters.conversation_type = "Bot" =>
                    (id \in SeqToSet(rows) <=> \E msg \in SurvivingOutgoing(id) : IsBotSender(msg))
              /\ filters.conversation_type = "Agente" =>
                    (id \in SeqToSet(rows) <=> \E msg \in SurvivingOutgoing(id) : IsAgentSender(msg))

C2_Witness ==
    /\ apc = "done" /\ filters.conversation_type = "Agente"
    /\ remote[10] = Fetched(BotAndUser) /\ remote[2] = Fetched(OnlyBot)
    /\ rows = <<10>> /\ stats.total_conversas = 1 /\ stats.total_enviadas = 1

\* `for msg in msgs` from the first message to the last.
RECURSIVE ProcessAll(_, _, _, _, _)
ProcessAll(l, f, m, table_conv_set, created_dt) ==
    IF l.pos > Len(l.msgs) THEN l
    ELSE ProcessAll(MessageStep(l, l.msgs[l.pos], f, m, table_conv_set, created_dt),
                    f, m, table_conv_set, created_dt)

\* The accumulators when the futures of ids are taken in the order of the list.
RECURSIVE InListOrder(_, _, _, _, _, _)
InListOrder(ids, k, t, convs, rem, table_conv_set) ==
    IF k > Len(ids) THEN t
    ELSE LET l == ProcessAll(NewLocals(ids[k], rem[ids[k]].msgs), filters, mode,
                             table_conv_set, ConvMetaCreated(convs, SeqToSet(ids), ids[k]))
             passes == rem[ids[k]].ok /\ TypeGate(filters.conversation_type,
                                                  l.has_bot_outgoing, l.has_agent_outgoing)
         IN  InListOrder(ids, k + 1, IF passes THEN AddConversation(t, l) ELSE t,
                         convs, rem, table_conv_set)

\* What one aggregation over convs gives when _fetch_messages answers as rem and
\* the futures complete in the order of submission.
Reference(convs, rem) ==
    LET strict == CollectConversationRows(convs, filters, TRUE)
        relaxed == CollectConversationRows(convs, filters, FALSE)
        t == InListOrder(relaxed.ids, 1, TotZero, convs, rem, SeqToSet(strict.ids))
        final_rows == FinalRows(strict.rows, t, filters.conversation_type)
    IN  IF mode = "analysis" /\ strict.rows = <<>>
        THEN [rows |-> <<>>, stats |-> NoStats, messages |-> <<>>]
        ELSE [rows |-> final_rows, stats |-> FinalStats(final_rows, t, mode),
              messages |-> SortRows(t.message_rows)]

Result == [rows |-> rows, stats |-> stats, messages |-> messages]

\* C3: whatever the order in which the futures completed, the aggregation ends
\* with the rows, the stats and the sorted message rows that the order of
\* submission gives; and an aggregation that ends while the results of an
\* earlier one over the same data and filters are stored leaves them as they are.
C3_OrderIndependent ==
    /\ [](apc = "done" => Result = Reference(conversations, remote))
    /\ [][(apc' = "done" /\ stats # NoStats) => (stats' = stats /\ messages' = messages)]_vars

C3_Witness ==
    /\ apc = "done" /\ Len(messages) >= 4 /\ messages # tot.message_rows
    /\ \E i, j \in 1 .. Len(messages) : messages[i].id_conversa # messages[j].id_conversa
    /\ tot.message_rows[1].id_conversa = 2 /\ messages[1].id_conversa = 10

WithoutFailed(convs) ==
    LET Ok(c) == remote[c.id].ok IN SelectSeq(convs, Ok)

FailuresAsEmpty(rem) == [id \in DOMAIN rem |-> IF rem[id].ok THEN rem[id] ELSE Fetched(<<>>)]

\* A pass of the as_completed loop whose future.result() raised.
RaisedStep == apc = "wait" /\ apc' # "msgs" /\ pending' # pending

\* C4 as stated: the aggregation ends with what it would give had the
\* conversations whose fetch raised not been there at all (nothing in the
\* counters, the rows or the conversation count).
C4_Original ==
    apc = "done" => Result = Reference(WithoutFailed(conversations), remote)

\* C4: a fetch that raises is caught, leaves the accumulators as they are and
\* lets the loop go on; the aggregation ends with what it would give had each
\* such conversation had no message: nothing from it in the message counters or
\* the message rows, every other conversation contributing as it otherwise would,
\* and the conversation itself counted in total_conversas as a conversation
\* with no message is.
C4_FailedCountsAsEmpty ==
    /\ [](apc = "done" => Result = Reference(conversations, FailuresAsEmpty(remote)))
    /\ [][RaisedStep => (tot' = tot /\ cur' = cur /\ apc' \in {"wait", "done"})]_vars

C4_Witness ==
    /\ apc = "done" /\ ~remote[2].ok /\ remote[10] = Fetched(BotAndUser) /\ remote[3].ok
    /\ filters.conversation_type = "Todos" /\ mode = "analysis" /\ warnings = 1
    /\ stats.total_conversas = 2 /\ stats.total_enviadas >= 2 /\ rows = <<10, 2>>

(***************************************************************************)
(* Claims about the order of the message rows                              *)
(***************************************************************************)
\* Two adjacent rows of the stored message rows.
AdjacentRows == {<<messages[i], messages[i + 1]>> : i \in 1 .. Len(messages) - 1}

\* C11 as stated: at the end of an aggregation, no row is followed by a row of
\* an earlier conversation creation instant, or of the same instant and a
\* smaller conversation id, or of the same conversation and an earlier message
\* instant.
C11_Original ==
    apc = "done" =>
        \A p \in AdjacentRows :
            \/ p[1].sort_conv_dt < p[2].sort_conv_dt
            \/ /\ p[1].sort_conv_dt = p[2].sort_conv_dt
               /\ \/ p[1].id_conversa < p[2].id_conversa
                  \/ /\ p[1].id_conversa = p[2].id_conversa
                     /\ p[1].sort_msg_dt <= p[2].sort_msg_dt

\* C11: at the end of an aggregation the message rows are in ascending order of
\* (conversation creation instant, decimal text of the conversation id compared
\* as a string, message instant), a missing instant counting as the earliest:
\* among conversations created at the same instant, 10 comes before 2.
C11_SortedByIdText ==
    apc = "done" =>
        \A p \in AdjacentRows :
            \/ p[1].sort_conv_dt < p[2].sort_conv_dt
            \/ /\ p[1].sort_conv_dt = p[2].sort_conv_dt
               /\ \/ StrLess(StrOfNat(p[1].id_conversa), StrOfNat(p[2].id_conversa))
                  \/ /\ p[1].id_conversa = p[2].id_conversa
                     /\ p[1].sort_msg_dt <= p[2].sort_msg_dt

C11_Witness ==
    /\ apc = "done" /\ Len(messages) >= 3
    /\ \E i \in 1 .. Len(messages) - 1 :
          /\ messages[i].id_conversa = 10 /\ messages[i + 1].id_conversa = 2
          /\ messages[i].sort_conv_dt = messages[i + 1].sort_conv_dt
    /\ \E i \in 1 .. Len(messages) - 1 :
          /\ messages[i].id_conversa = messages[i + 1].id_conversa
          /\ messages[i].sort_msg_dt < messages[i + 1].sort_msg_dt

(***************************************************************************)
(* Claims about the conversations that give message rows                   *)
(***************************************************************************)
\* C12: in the analysis tab and in the insights context builder alike, every
\* message row, those of the conversation being processed and those stored at
\* the end, belongs to a conversation of the strict (creation-date-enforced)
\* set; a conversation accepted by the relaxed pass only gives no row.
C12_RowsOnlyForStrict ==
    apc # "idle" =>
        /\ \A i \in 1 .. Len(cur.conv_rows) :
              cur.conv_rows[i].id_conversa \in SeqToSet(conv_api_ids)
        /\ \A i \in 1 .. Len(tot.message_rows) :
              tot.message_rows[i].id_conversa \in SeqToSet(conv_api_ids)
        /\ \A i \in 1 .. Len(messages) :
              messages[i].id_conversa \in SeqToSet(conv_api_ids)

(***************************************************************************)
(* Claims about the message sample                                         *)
(***************************************************************************)
\* The message lines and the footer lines among the lines written.
WrittenMessageLines == LET IsMessageLine(l) == Head(l) = "-" IN SelectSeq(lines, IsMessageLine)
WrittenFooters == LET IsFooter(l) == Head(l) = "." IN SelectSeq(lines, IsFooter)

RECURSIVE TotalLength(_)
TotalLength(ls) == IF ls = <<>> THEN 0 ELSE Len(Head(ls)) + TotalLength(Tail(ls))

\* The number a footer line reports: the digits between "(" and the next blank.
OmittedReported(l) ==
    LET stop == CHOOSE i \in 6 .. Len(l) : l[i] = " " /\ \A j \in 6 .. i - 1 : l[j] # " "
    IN  IntOfStr(SubSeq(l, 6, stop - 1))

\* C13: the finished sample holds at most max_messages message lines and at
\* most max_chars characters of message lines in total; when fewer lines than
\* message rows were written there is one footer, which reports the number of
\* rows minus the number of lines written; when every row was written there is
\* no footer.
C13_SampleWithinLimits ==
    spc = "done" =>
        /\ Len(WrittenMessageLines) <= max_messages
        /\ TotalLength(WrittenMessageLines) <= max_chars
        /\ Len(WrittenMessageLines) < Len(sample_rows) =>
              /\ Len(WrittenFooters) = 1
              /\ OmittedReported(WrittenFooters[1]) = Len(sample_rows) - Len(WrittenMessageLines)
        /\ Len(WrittenMessageLines) = Len(sample_rows) => WrittenFooters = <<>>

(***************************************************************************)
(* Claims about the bot service                                            *)
(***************************************************************************)
\* The last run of responder_cliente had everything the reply needs: settings
\* present, bot enabled, provider openai, API key and helpdesk credentials
\* present, the conversation open or pending, no moderation flag, and a model
\* that returned text.
ReplyIsDue ==
    /\ task_done # [absent |-> TRUE]
    /\ config # NoConfig /\ config.bot_enabled /\ config.provider = "openai"
    /\ config.openai_api_key # "" /\ config.chatwoot_url # ""
    /\ config.chatwoot_api_token # "" /\ config.chatwoot_account_id # ""
    /\ task_done.env.conv \in {"open", "pending"}
    /\ ~config.moderation_enabled \/ task_done.env.moderation = "clean"
    /\ ~config.moderation_enabled \/ config.custom_terms = <<>>
    /\ task_done.env.llm = "text"

\* C14: a run of responder_cliente that had everything the reply needs logged
\* the user message, called the model once, with the history of the
\* conversation ending in the customer message, and posted exactly one message,
\* the reply of the model, to the conversation of the task.
C14_ReplyPosted ==
    ReplyIsDue =>
        /\ \E i \in 1 .. Len(task_done.logs) : task_done.logs[i].direction = "user"
        /\ Len(task_done.calls) = 1
        /\ task_done.calls[1][Len(task_done.calls[1])].role = "user"
        /\ Len(task_done.posts) = 1
        /\ task_done.posts[1].conversation_id = task_done.task.conversation_id
        /\ task_done.posts[1].content = "resposta"

\* C15: whatever the request (event type, payload shape, disallowed inbox,
\* duplicate, audio-only message, empty text, inside business hours, internal
\* exception), chatwoot_webhook returns the body {"status": "ok"}.
C15_AlwaysAcknowledges ==
    request # [absent |-> TRUE] => request.ack = AckOk

\* The deliveries that got past the deduplication: those that ended after it.
PassedDedup(d) ==
    d.stage \in {"criteria", "audio", "audio_error", "empty", "hours", "enqueued"}

\* The positions of the deliveries carrying message id m that passed.
PassesOf(m) == {i \in 1 .. Len(deliveries) : deliveries[i].message_id = m /\ PassedDedup(deliveries[i])}

\* C16: of the message_created deliveries carrying one message id (the id the
\* handler reads: "id", else "message_id", a zero or empty value reading as no
\* id), at most one passes deduplication; every later one is acknowledged with
\* {"status": "ok"}, adds no reply task and posts no message.
C16_AtMostOncePerId ==
    \A i \in 1 .. Len(deliveries) :
        deliveries[i].message_id # VNone =>
            /\ Cardinality(PassesOf(deliveries[i].message_id)) <= 1
            /\ (\E j \in PassesOf(deliveries[i].message_id) : j < i) =>
                  (~deliveries[i].replied /\ deliveries[i].ack = AckOk)

C16_Witness ==
    /\ Len(deliveries) = 2
    /\ deliveries[1].message_id = VInt(5) /\ deliveries[1].stage = "enqueued"
    /\ deliveries[2].message_id = VInt(5) /\ deliveries[2].stage = "duplicate"
    /\ request.data = BasePayload /\ Len(tasks) = 1

\* The inbox id the event carries, as the handler reads it.
InboxOf(data) == PayloadFields(data).inbox_id

\* C17 as stated: the request that added a reply task or posted a message
\* carried an inbox id, equal to ALLOWED_INBOX_ID.
C17_Original ==
    (request # [absent |-> TRUE] /\ (request.task # NoTask \/ request.post # NoPost)) =>
        /\ InboxOf(request.data) # VNone
        /\ StrOfValue(InboxOf(request.data)) = ALLOWED_INBOX_ID

\* C17: the request that added a reply task or posted a message either carried
\* no inbox id or carried one whose text equals ALLOWED_INBOX_ID; an event of
\* another inbox never leads to a reply, an event with no inbox id can.
C17_AllowedOrNoInbox ==
    (request # [absent |-> TRUE] /\ (request.task # NoTask \/ request.post # NoPost)) =>
        \/ InboxOf(request.data) \in {VNone, VInt(0), VStr(<<>>)}
        \/ StrOfValue(InboxOf(request.data)) = ALLOWED_INBOX_ID

C17_Witness ==
    /\ request # [absent |-> TRUE] /\ request.task # NoTask
    /\ InboxOf(request.data) = VNone /\ request.task.inbox_id = VNone
    /\ Len(tasks) = 2 /\ tasks[1].inbox_id = VInt(88473)

\* The conditions C18 lists, for the last request: message_created, settings
\* present with the bot enabled and the helpdesk credentials set, an incoming
\* message (type 0 or "incoming") whose private flag is False, a conversation
\* id, a text, and a clock outside the configured business hours.
ListedConditions ==
    LET f == PayloadFields(request.data) IN
    /\ request.data.json_ok /\ request.data.event = "message_created"
    /\ config # NoConfig /\ config.bot_enabled
    /\ config.chatwoot_url # "" /\ config.chatwoot_api_token # ""
    /\ config.chatwoot_account_id # ""
    /\ f.msg_type \in {VInt(0), VStr(S_incoming)}
    /\ f.is_private = VBool(FALSE)
    /\ f.conversation_id \notin {VNone, VInt(0)}
    /\ f.content \notin {VNone, VStr(<<>>)}
    /\ ForaDoHorarioComercial(config, request.dia, request.hora)

\* The last request is not stopped before the message is looked at: its inbox
\* id is missing or the allowed one, and no earlier delivery that passed
\* deduplication carried its message id.
NotStoppedEarlier ==
    LET f == PayloadFields(request.data) IN
    /\ f.inbox_id \in {VNone, VInt(0), VStr(<<>>)} \/ StrOfValue(f.inbox_id) = ALLOWED_INBOX_ID
    /\ \/ f.message_id \in {VNone, VInt(0)}
       \/ \A j \in 1 .. Len(deliveries) - 1 :
             ~(deliveries[j].message_id = f.message_id /\ PassedDedup(deliveries[j]))

\* C18 as stated: a request adds the reply task exactly when the listed
\* conditions hold.
C18_Original ==
    request # [absent |-> TRUE] => (request.task # NoTask <=> ListedConditions)

\* C18: a request adds the reply task exactly when the listed conditions hold
\* and, besides, the event is not stopped earlier: its inbox id is missing or
\* the allowed one and its message id was not handled before; in every other
\* case no reply task is added.
C18_EnqueuesExactlyWhen ==
    request # [absent |-> TRUE] =>
        (request.task # NoTask <=> (ListedConditions /\ NotStoppedEarlier))

C18_Witness ==
    /\ request # [absent |-> TRUE] /\ request.task # NoTask
    /\ DOMAIN config.schedule = {5} /\ request.dia = 0 /\ request.hora = 10
    /\ request.task.user_message = <<"o", "l", "a">>
    /\ Len(deliveries) = 2 /\ deliveries[1].stage = "hours"

\* The positions of message_conv_ids submitted so far and not yet yielded
\* whose fetch is under way or waits for a worker.
Unfinished == pending \ completed

\* C19: once the aggregation has started, at most 3 message fetches run at the
\* same time; the futures of one batch are at most 2 * max_workers, where
\* max_workers is min(3, max(1, number of ids)); and a step that submits the
\* next batch is taken only when no fetch of the current batch is still
\* running or waiting, and leaves only positions after the current batch's.
C19_PoolAndBatches ==
    [][ /\ Cardinality(Running) <= 3
        /\ Cardinality(Running') <= 3
        /\ LET n == Len(message_conv_ids')
               max_workers == IF n < 1 THEN 1 ELSE IF n > 3 THEN 3 ELSE n
           IN  Cardinality(pending') <= 2 * max_workers
        /\ (batch_no >= 1 /\ batch_no' = batch_no + 1)
              => /\ Unfinished = {}
                 /\ Cardinality(pending) <= 1
                 /\ \A i \in pending' : \A j \in 1..Len(message_conv_ids) :
                       (j <= batch_no * BatchSize(Len(message_conv_ids))) => j < i
      ]_vars

\* Seven ids: three fetches run at once while three more of the batch wait.
C19_Witness ==
    /\ Len(message_conv_ids) = 7 /\ batch_no = 1
    /\ Cardinality(Running) = 3 /\ Cardinality(pending) = 6 /\ completed = {}

\* The run of the page was a "Gerar" of the conversations or analysis tab with
\* the start date after the end date, or with a raising conversation fetch.
FailedGerar(c) ==
    /\ c # NoClick
    /\ c.mode \in {"conversations", "analysis"}
    /\ c.start_date > c.end_date \/ c.raises

\* C20: a step that is a failing "Gerar" of the conversations or analysis tab
\* (start date after end date, or the conversation fetch raises) shows an
\* error and leaves conv_results, conv_analysis_stats and
\* conv_analysis_messages exactly as they were before it.
C20_FailedGerarKeepsResults ==
    [][ FailedGerar(click')
          => /\ error' # ""
             /\ conv_results' = conv_results /\ stats' = stats /\ messages' = messages
      ]_vars

\* Both tabs hold results of earlier runs when a "Gerar" of the analysis tab
\* fails on its period.
C20_Witness ==
    /\ FailedGerar(click) /\ click.mode = "analysis" /\ click.start_date > click.end_date
    /\ error # "" /\ conv_results # <<>> /\ stats # NoStats /\ messages # <<>>

(***************************************************************************)
(* Claims about the classification of senders                              *)
(***************************************************************************)
\* The messages the fetches of the run return.
FetchedMessages ==
    UNION { SeqToSet(remote[id].msgs) : id \in {c \in DOMAIN remote : remote[c].ok} }

\* C24 as stated: for every message the aggregation is given, _is_agent_sender
\* is true exactly when the direction is outgoing, the sender type is "user" or
\* "agent" and _is_bot_sender is false; no message is both bot and agent, and
\* an incoming message is never agent.
C24_Original ==
    apc # "idle" =>
        \A msg \in FetchedMessages :
            /\ IsAgentSender(msg)
                  <=> /\ MessageDirection(msg) = "outgoing"
                      /\ MessageSenderType(msg) \in {S_user, S_agent}
                      /\ ~IsBotSender(msg)
            /\ ~(IsBotSender(msg) /\ IsAgentSender(msg))
            /\ MessageDirection(msg) = "incoming" => ~IsAgentSender(msg)

\* C24, amended: for every message the aggregation is given, _is_agent_sender is
\* true exactly when the sender type is "user" or "agent" and _is_bot_sender is
\* false, whatever the direction; no message is both bot and agent.
C24_AgentBySenderType ==
    apc # "idle" =>
        \A msg \in FetchedMessages :
            /\ IsAgentSender(msg)
                  <=> /\ LowerStr(Strip(StrOr(msg.sender_type, msg.sender.type)))
                            \in {S_user, S_agent}
                      /\ ~IsBotSender(msg)
            /\ ~(IsBotSender(msg) /\ IsAgentSender(msg))

\* An incoming message of sender type "user" is given and is an agent's.
C24_Witness ==
    /\ apc # "idle"
    /\ \E msg \in FetchedMessages :
          /\ MessageDirection(msg) = "incoming" /\ IsAgentSender(msg)
          /\ msg.sender_type = S_user

(***************************************************************************)
(* Claims about the instants of the messages counted                       *)
(***************************************************************************)
\* C25: every message the aggregation counts (it passed the date, status and
\* type filters) has a created_at or timestamp that parses and lies in
\* [start_dt, end_dt]; a message with no parseable instant is not counted.
C25_CountedHaveInstantInRange ==
    [][CountedStep =>
         LET msg == cur.msgs[cur.pos]
             msg_dt == ParseTs(PyOr(msg.created_at, msg.timestamp))
         IN  /\ msg_dt # NoTs
             /\ StartOfDay(filters.start_date) <= msg_dt
             /\ msg_dt <= EndOfDay(filters.end_date)]_vars

(***************************************************************************)
(* Claims about the private conversations                                  *)
(***************************************************************************)
\* C26 as stated: in every aggregate result total_conversas_privadas is at most
\* total_conversas, and every conversation counted as private is one of the
\* conversations counted in total_conversas (those of the rows).
C26_Original ==
    (apc = "done" /\ stats # NoStats) =>
        /\ stats.total_conversas_privadas <= stats.total_conversas
        /\ tot.conversas_privadas \subseteq SeqToSet(rows)

\* C26, amended: in every aggregate result the conversations counted as private
\* are conversations of the relaxed pass whose messages were fetched and passed
\* the type gate, so total_conversas_privadas is at most their number, and at
\* most total_privadas since each of them holds a private message counted.
C26_PrivateAmongFetched ==
    (apc = "done" /\ stats # NoStats) =>
        /\ tot.conversas_privadas \subseteq tot.allowed_conv_ids
        /\ tot.allowed_conv_ids \subseteq SeqToSet(message_conv_ids)
        /\ stats.total_conversas_privadas = Cardinality(tot.conversas_privadas)
        /\ stats.total_conversas_privadas <= Len(message_conv_ids)
        /\ stats.total_conversas_privadas <= stats.total_privadas

\* Three private conversations against two conversations counted.
C26_Witness ==
    /\ apc = "done" /\ stats # NoStats
    /\ stats.total_conversas_privadas = 3 /\ stats.total_conversas = 2

(***************************************************************************)
(* Claims about a conversation fetched twice                               *)
(***************************************************************************)
\* A sequence without two equal elements.
NoRepeats(q) == \A i, j \in 1 .. Len(q) : q[i] = q[j] => i = j

\* The list-ids of the message rows: conversation and message.
RowIds(q) == [i \in 1 .. Len(q) |-> <<q[i].id_conversa, q[i].msg_id>>]

\* C27: whatever the list of conversations the fetch returned, with the same
\* conversation twice in it or not, each conversation id is in the rows of the
\* strict pass once (so total_conversas counts it once), is submitted for its
\* messages once, and each of its messages gives one row.
C27_EachIdOnce ==
    apc # "idle" =>
        /\ NoRepeats(rows)
        /\ NoRepeats(message_conv_ids)
        /\ NoRepeats(RowIds(tot.message_rows))
        /\ stats # NoStats =>
              stats.total_conversas <= Cardinality({ConvId(conversations[i]) :
                                                      i \in 1 .. Len(conversations)})

(***************************************************************************)
(* Claims about the business hours                                         *)
(***************************************************************************)
\* C30: when the last webhook request was a message_created event handled with
\* the bot enabled and configured, at a time inside the business hours
\* (fora_do_horario_comercial false), the handler enqueued no reply task and
\* posted no outgoing message for it.
C30_SilentInBusinessHours ==
    ( /\ request # [absent |-> TRUE]
      /\ request.stage \notin {"error", "event", "config", "credentials"}
      /\ ~ForaDoHorarioComercial(config, request.dia, request.hora) )
    => request.task = NoTask /\ request.post = NoPost

(***************************************************************************)
(* Claims about moderation                                                 *)
(***************************************************************************)
\* The step is a run of responder_cliente on the task at the head of the queue.
RunTaskStep == tasks # <<>> /\ tasks' = Tail(tasks)

\* The customer messages in the history of conversation c.
UserEntries(hist, c) ==
    IF c \in DOMAIN hist
    THEN Len(SelectSeq(hist[c], LAMBDA m : m.role = "user"))
    ELSE 0

\* C29: a run of responder_cliente with moderation enabled, on a message that
\* a custom term or the moderation call flags, makes no call of the model,
\* appends no customer message to the history of the conversation, and posts
\* nothing or only the moderation warning, to the conversation of the task.
C29_FlaggedNeverReachesModel ==
    [][ ( /\ RunTaskStep
          /\ config # NoConfig /\ config.moderation_enabled
          /\ \/ CustomModerationHit(Head(tasks).user_message, config.custom_terms)
             \/ task_done'.env.moderation = "flagged" )
        => /\ llm_calls' = llm_calls
           /\ UserEntries(historico_conversas', Head(tasks).conversation_id)
                 = UserEntries(historico_conversas, Head(tasks).conversation_id)
           /\ \/ posted' = posted
              \/ /\ Len(posted') = Len(posted) + 1
                 /\ SubSeq(posted', 1, Len(posted)) = posted
                 /\ posted'[Len(posted')].conversation_id = Head(tasks).conversation_id
                 /\ posted'[Len(posted')].content = "aviso de moderacao"
      ]_vars

\* A run on a message that the moderation call flagged, and one that a custom
\* term flagged, with the conversation open and the bot configured.
C29_Witness ==
    /\ task_done # [absent |-> TRUE]
    /\ config # NoConfig /\ config.moderation_enabled
    /\ task_done.env.conv = "open"
    /\ task_done.how \notin {"no_config", "disabled", "provider", "no_api_key",
                             "credentials", "blocked"}
    /\ \/ task_done.env.moderation = "flagged"
       \/ CustomModerationHit(task_done.task.user_message, config.custom_terms)
    /\ task_done.calls = <<>>
    /\ task_done.task.conversation_id \in DOMAIN historico_conversas

(***************************************************************************)
(* Claims about the insight-prompts tab                                    *)
(***************************************************************************)
\* The step is a run of the tab in which "Salvar" was pressed, or "Excluir".
SaveStep == prompt_op'.n = prompt_op.n + 1 /\ prompt_op'.op = "save"
DeleteStep == prompt_op'.n = prompt_op.n + 1 /\ prompt_op'.op = "delete"

\* The ids of the table.
PromptIds(table) == {r.id : r \in table}

\* Table after is table before plus one row of a new id holding the values.
InsertsOne(before, after, name, description, prompt_text) ==
    \E r \in after :
        /\ r.id \notin PromptIds(before) /\ after = before \cup {r}
        /\ r.name = name /\ r.description = description /\ r.prompt_text = prompt_text

\* Table after is table before with the row of id holding the values.
UpdatesInPlace(before, after, id, name, description, prompt_text) ==
    /\ PromptIds(after) = PromptIds(before) /\ Cardinality(after) = Cardinality(before)
    /\ \A r \in after :
          IF r.id = id
          THEN r.name = name /\ r.description = description /\ r.prompt_text = prompt_text
          ELSE r \in before

Trimmed(s) ==
    LET inner == {i \in 1 .. Len(s) : s[i] # " "} IN
    IF inner = {} THEN <<>>
    ELSE SubSeq(s, CHOOSE i \in inner : \A j \in inner : i <= j,
                   CHOOSE i \in inner : \A j \in inner : j <= i)

SetBotEnabledStep == settings_op'.n = settings_op.n + 1 /\ settings_op'.called

OtherSettingsKeys == DOMAIN load_settings(SavedRow) \ {"bot_enabled"}

\* What load_settings() returns after set_bot_enabled(enabled) over an empty table.
DefaultSettings(enabled) ==
    [system_prompt |-> SqlText(""), provider |-> SqlText("openai"),
     model |-> SqlText("gpt-4.1-mini"), vector_store_id |-> SqlText(""),
     chatwoot_url |-> SqlText(""), chatwoot_api_token |-> SqlText(""),
     chatwoot_account_id |-> SqlText(""), horario_inicio |-> SqlInt(8),
     horario_fim |-> SqlInt(18), dias_funcionamento |-> JList(<<"0", "1", "2", "3", "4">>),
     bot_enabled |-> enabled, schedule |-> def_sched, providers |-> JDict(<<>>),
     prompt_blocks |-> JDict(<<>>), prompt_profile_id |-> SqlNull,
     moderation_enabled |-> FALSE, custom_moderation_terms |-> SqlText("")]

\* C22: set_bot_enabled(x) changes only the bot_enabled flag: after the call
\* load_settings() returns bot_enabled = x and every other field with the value it
\* returned before the call; without a settings row the call creates one, and
\* load_settings() then returns the default values with bot_enabled = x.
C22_OnlyTheFlagChanges ==
    [][SetBotEnabledStep =>
        LET before == load_settings(settings)
            after == load_settings(settings')
        IN  /\ after # NoSettings
            /\ after.bot_enabled = settings_op'.enabled
            /\ before # NoSettings =>
                   \A key \in OtherSettingsKeys : after[key] = before[key]
            /\ before = NoSettings => after = DefaultSettings(settings_op'.enabled)]_vars

\* set_bot_enabled(True) has run over a row of an older database, whose added columns
\* are NULL, and the row it left holds other cells than the row it found.
C22_Witness ==
    /\ settings_op.op = "ativar"
    /\ load_settings(settings).bot_enabled
    /\ settings.schedule_json = SqlText("null")
    /\ load_settings(settings).schedule = JNone
    /\ settings.system_prompt = SqlNull
    /\ load_settings(settings).dias_funcionamento = JList(<<"0", "1", "2", "3", "4">>)

\* A step in which a page of the dashboard called render_sidebar.
RenderSidebarStep ==
    settings_op'.n = settings_op.n + 1 /\ settings_op'.op = "render_sidebar"

\* C23 as stated: the first render_sidebar call of the process sets bot_enabled to
\* False and stops the webhook server; no later call changes bot_enabled.
C23_Original ==
    [][RenderSidebarStep =>
        IF settings_op.n = 0
        THEN ~load_settings(settings').bot_enabled /\ ~webhook'
        ELSE load_settings(settings').bot_enabled = load_settings(settings).bot_enabled]_vars

\* C23: the first render_sidebar call of a dashboard process sets bot_enabled to False
\* and runs pkill on the webhook server, which stops it where pkill is installed and
\* leaves it running where it is not; no later render_sidebar call of the process
\* changes the settings row or the server, so a bot the user activated stays enabled
\* across page reruns.
C23_BootstrapOnce ==
    [][RenderSidebarStep =>
        IF settings_op.n = 0
        THEN /\ ~load_settings(settings').bot_enabled
             /\ procps => ~webhook'
             /\ ~procps => webhook' = webhook
        ELSE settings' = settings /\ webhook' = webhook]_vars

\* The first run disabled the bot and stopped the server, the user activated the bot,
\* and the page was rendered again: the bot is enabled and the server runs.
C23_Witness ==
    /\ settings_op.n = 3 /\ settings_op.op = "render_sidebar"
    /\ BOOTSTRAPPED /\ procps
    /\ load_settings(settings).bot_enabled
    /\ webhook

\* A run of the insights tab.
InsightsRun == insights_op'.n = insights_op.n + 1 /\ insights_op'.op # "elsewhere"

\* The filters of the run that ends in the next state.
FiltersOfRun == RenderFilters(conv_insights_widgets')

\* C28: in the insights tab the model is called only in a run where "Sim" was pressed
\* while conv_insights_pending was true after a successful "Gerar insights", and the
\* call carries the context that generation stored, built for the filters in force at
\* the call; a run that finds another filter signature than the last one, and does not
\* generate again, leaves no summary, context or output and pending false.
C28_OnlyConfirmedContextIsSent ==
    [][/\ insights_calls' # insights_calls =>
            /\ insights_op'.op = "sim"
            /\ conv_insights.pending
            /\ insights_op.generated # NoValue
            /\ Len(insights_calls') = Len(insights_calls) + 1
            /\ SubSeq(insights_calls', 1, Len(insights_calls)) = insights_calls
            /\ LET call == insights_calls'[Len(insights_calls')] IN
                /\ call.context = insights_op.generated
                /\ call.context = conv_insights.context
                /\ call.context.filters = [FiltersOfRun EXCEPT !.selected_prompt_id = 0]
                /\ conv_insights.prompt_id = FiltersOfRun.selected_prompt_id
       /\ ( /\ InsightsRun
            /\ insights_op'.op # "gerar"
            /\ conv_insights.last_signature # NoValue
            /\ InsightsFiltersSignature(FiltersOfRun) # conv_insights.last_signature ) =>
            /\ conv_insights'.summary = NoValue
            /\ conv_insights'.context = NoValue
            /\ conv_insights'.output = NoValue
            /\ ~conv_insights'.pending]_vars

\* The user set the status filter, chose a prompt, pressed "Gerar insights" and then
\* "Sim": the model got the context built for those filters and its output is stored.
C28_Witness ==
    /\ insights_op.op = "sim"
    /\ Len(insights_calls) = 1
    /\ insights_calls[1].context = insights_op.generated
    /\ insights_calls[1].context.filters.status_filter = "open"
    /\ conv_insights.output # NoValue
    /\ ~conv_insights.pending

====
